---------------------------- MODULE Spec2Model ----------------------------
(***************************************************************************)
(* depc-bridge: the bridge engine of src/src/bridge/bridge.rs together     *)
(* with the Ledger (src/src/db/conn.rs), the OP_RETURN script decoder      *)
(* (src/src/depc/script.rs) and the burn verification                      *)
(* (src/src/solana/client.rs, src/src/solana/transaction_parser.rs).       *)
(*                                                                         *)
(* Specifications:                                                         *)
(*   Spec          the bridge as written: run_depc_syncing, the two        *)
(*                 workers, the exit latch, the Chain-A node, process      *)
(*                 kill and restart.                                       *)
(*   SpecDirective one run of the same bridge with a decoder that yields   *)
(*                 any directive where lines 79-85 of script.rs stand.     *)
(*   SpecSync      sync of src/src/sync/syncing.rs as main.rs runs it,     *)
(*                 with the consumer of src/src/bridge/deposit.rs.         *)
(*   SpecVerify    SolanaClient::verify applied to Chain-B transactions.   *)
(*   SpecLedger    the Conn API called in any order.                       *)
(*   SpecRerun     the bridge restarted once, with a decoder that yields a *)
(*                 deposit directive.                                      *)
(*   SpecRepeat    the bridge on a node that serves a transaction again.   *)
(*   SpecCoins     add_coin and mark_coin_to_spent called in any order.    *)
(*   SpecDecode    the decoders of src/src/depc/script.rs and              *)
(*                 src/src/bridge/depc_script.rs applied to scripts.       *)
(***************************************************************************)
EXTENDS Integers, Sequences, FiniteSets, TLC

VARIABLES
    chain,        \* Chain-A as served by the node: chain[i] is the block at height i-1
    db,           \* the Ledger as seen through the one shared connection
    committed,    \* the Ledger content that survives a process kill
    inTxn,        \* a "begin transaction" is open on the connection
    exit,         \* the exit latch (Arc<Mutex<bool>>)
    ipc,          \* run_depc_syncing: position
    sync_height,  \* run_depc_syncing: the cursor
    txi,          \* run_depc_syncing: index of the current txid in block.tx
    oi,           \* run_depc_syncing: index of the current txout
    pending,      \* run_depc_syncing: the event of the send it is blocked on
    depositQ,     \* channel tx_deposit -> rx_deposit (capacity 1)
    withdrawQ,    \* channel tx_withdraw -> rx_withdraw (capacity 1)
    dpc,          \* deposit_processing: position
    wpc,          \* withdraw_processing: position
    wcur,         \* withdraw_processing: the event it has received
    hist,         \* history: what was fetched, sent, transferred (not read by the code)
    directive,    \* what lines 79-85 of the decoder produce: "stub" as written,
                  \* "deposit" a recipient only, "any" every directive
    vtx,          \* SpecVerify: the Chain-B transaction handed to verify
    vres,         \* SpecVerify: what verify returned for it
    lcall,        \* SpecLedger: the last call of the Conn API and its result
    signal,       \* the OS signal shutdown_signal has received, "none" before
    hex_str_in,   \* SpecDecode: the script_hex handed to the decoder
    decoded       \* SpecDecode: what the decoder returned for it

vars == <<chain, db, committed, inTxn, exit, ipc, sync_height, txi, oi, pending,
          depositQ, withdrawQ, dpc, wpc, wcur, hist, directive, signal, vtx, vres, lcall,
          hex_str_in, decoded>>

\* the variables of the bridge other than the Ledger
bridgeVars == <<chain, committed, inTxn, exit, ipc, sync_height, txi, oi, pending,
                depositQ, withdrawQ, dpc, wpc, wcur, hist, directive, signal,
                hex_str_in, decoded>>

-----------------------------------------------------------------------------
(* Bounds of the model *)

\* highest Chain-A height the node ever serves
MaxHeight == 2
\* number of process restarts explored
MaxRuns == 2

(* Program constants *)
DEPOSIT_THRESHOLD == 1000
WITHDRAW_THRESHOLD == 1000
OP_RETURN == 106
OP_PUSHDATA1 == 76
OP_PUSHDATA2 == 77
OP_PUSHDATA4 == 78
\* capacity of channel::<..>(1)
ChannelCapacity == 1

NULL == "NULL"
NoHeight == -1
OWNER == "OWNER"
ALICE == "ALICE"
\* the authority's Chain-B address (solana_owner_address)
AUTH_B == "AUTH_B"


-----------------------------------------------------------------------------
(* src/src/depc/script.rs: the OP_RETURN script decoder.  A script_hex is   *)
(* modelled as its sequence of hex digits (0..15; 16 stands for a character *)
(* that is no hex digit), a decoded script as its sequence of bytes.        *)

Err(e) == [tag |-> "Err", err |-> e, recipient |-> "", signature |-> ""]
Panic == [tag |-> "Panic", err |-> "", recipient |-> "", signature |-> ""]
Ok(r, s) == [tag |-> "Ok", err |-> "", recipient |-> r, signature |-> s]

\* hex::decode: an odd length or a non-hex character is an error
HexDecode(h) ==
    IF Len(h) % 2 # 0 \/ (\E i \in 1..Len(h) : h[i] > 15)
    THEN [ok |-> FALSE, bytes |-> <<>>]
    ELSE [ok |-> TRUE,
          bytes |-> [i \in 1..(Len(h) \div 2) |-> h[2 * i - 1] * 16 + h[2 * i]]]

\* the inverse used to write down scripts: two hex digits per byte
HexEncode(b) ==
    [i \in 1..(2 * Len(b)) |->
        IF i % 2 = 1 THEN b[(i + 1) \div 2] \div 16 ELSE b[i \div 2] % 16]

RECURSIVE from_le_bytes(_)
from_le_bytes(b) ==
    IF Len(b) = 0 THEN 0 ELSE b[1] + 256 * from_le_bytes(Tail(b))

\* lines 79-85: the directive is a stub, recipient "" and signature
\* "".parse().unwrap(); whether parsing "" as a Signature succeeds is decided
\* by the Signature type's FromStr, outside this repository: both outcomes
DirectiveStub ==
    IF directive = "stub" THEN {Panic, Ok("", "")}
    ELSE IF directive = "deposit" THEN {Panic, Ok("RCP", "")}
    ELSE {Panic} \cup {Ok(r, g) : r \in {"", "RCP", "!bad"},
                                  g \in {"", "SIG_B", "SIG_SMALL", "SIG_NONE"}}

decode_script_after_op_return(script) ==
    IF Len(script) = 0 THEN {Err("InvalidScript")}
    ELSE
      LET opcode == script[1]
          bad == [ok |-> FALSE, size |-> 0, start_index |-> 0]
          hdr ==
            IF opcode < OP_PUSHDATA1 THEN
                [ok |-> TRUE, size |-> opcode, start_index |-> 1]
            ELSE IF opcode = OP_PUSHDATA1 THEN
                IF Len(script) < 2 THEN bad
                ELSE [ok |-> TRUE, size |-> script[2], start_index |-> 2]
            ELSE IF opcode = OP_PUSHDATA2 THEN
                IF Len(script) < 3 THEN bad
                ELSE [ok |-> TRUE, size |-> from_le_bytes(SubSeq(script, 2, 3)),
                      start_index |-> 3]
            ELSE IF opcode = OP_PUSHDATA4 THEN
                IF Len(script) < 5 THEN bad
                ELSE [ok |-> TRUE, size |-> from_le_bytes(SubSeq(script, 2, 5)),
                      start_index |-> 5]
            ELSE [ok |-> TRUE, size |-> 1, start_index |-> 1]
      IN  IF ~hdr.ok THEN {Err("InvalidScript")}
          \* assert_eq!(slice.len(), size)
          ELSE IF Len(script) - hdr.start_index # hdr.size THEN {Panic}
          ELSE DirectiveStub

\* a decoder that reads the declared length before it looks at the first byte
extract_string_length_first(hex_str) ==
    LET d == HexDecode(hex_str)
        data == d.bytes
    IN  IF ~d.ok THEN {Err("InvalidHex")}
        ELSE IF Len(data) < 6 THEN {Panic}
        ELSE IF data[1] # OP_RETURN THEN {Err("NotOPReturn")}
        ELSE LET size == from_le_bytes(SubSeq(data, 3, 6))
             IN  IF size = 0 THEN {Panic, Err("InvalidScript")}
                 ELSE IF size - 1 # Len(data) - 6 THEN {Err("InvalidScript")}
                 ELSE decode_script_after_op_return(SubSeq(data, 7, Len(data)))

\* the set of outcomes the builds of the decoder can produce for hex_str
extract_string_from_script_hex(hex_str) ==
    LET d == HexDecode(hex_str)
        data == d.bytes
    IN  IF ~d.ok THEN {Err("InvalidHex")}
        ELSE IF (IF Len(data) = 0 THEN 0 ELSE data[1]) # OP_RETURN
             THEN {Err("NotOPReturn")}
        \* data[2..=5] on fewer than 6 bytes: the slice index panics
        ELSE IF Len(data) < 6 THEN {Panic}
        ELSE LET size == from_le_bytes(SubSeq(data, 3, 6))
             IN  \* size - 1 on usize 0: a panic with overflow checks, else it
                 \* wraps to usize::MAX and the comparison fails
                 IF size = 0 THEN {Panic, Err("InvalidScript")}
                 ELSE IF size - 1 # Len(data) - 6 THEN {Err("InvalidScript")}
                 ELSE decode_script_after_op_return(SubSeq(data, 7, Len(data)))

-----------------------------------------------------------------------------
(* src/src/db/conn.rs: the Ledger.  A table is the sequence of its rows in  *)
(* insertion order; an insert that violates a unique index is an error.     *)

EmptyDb == [blocks |-> <<>>, transactions |-> <<>>, coins |-> <<>>,
            deposit |-> <<>>, withdraw |-> <<>>]

Rows(t) == {t[i] : i \in 1..Len(t)}
Res(ok, d) == [ok |-> ok, db |-> d]

\* SQL_INSERT_BLOCK under index__blocks_hash
add_block(d, hash, height, miner, time) ==
    IF \E r \in Rows(d.blocks) : r.hash = hash THEN Res(FALSE, d)
    ELSE Res(TRUE, [d EXCEPT !.blocks = Append(@,
            [hash |-> hash, height |-> height, miner |-> miner, time |-> time])])

\* SQL_INSERT_TRANSACTION under index__transactions_txid
add_transaction(d, block_hash, txid) ==
    IF \E r \in Rows(d.transactions) : r.txid = txid THEN Res(FALSE, d)
    ELSE Res(TRUE, [d EXCEPT !.transactions = Append(@,
            [block_hash |-> block_hash, txid |-> txid])])

\* SQL_INSERT_COIN under index__coins_txid_n
add_coin(d, txid, n, value, owner, script_hex) ==
    IF \E r \in Rows(d.coins) : r.txid = txid /\ r.n = n THEN Res(FALSE, d)
    ELSE Res(TRUE, [d EXCEPT !.coins = Append(@,
            [txid |-> txid, n |-> n, value |-> value, owner |-> owner,
             script_hex |-> script_hex, is_spent |-> FALSE,
             spent_height |-> NoHeight, spent_txid |-> NULL])])

\* an update that sets the flag and leaves spent_txid and spent_height alone
mark_coin_flag_only(d, txid, n, spent_txid, spent_height) ==
    Res(TRUE, [d EXCEPT !.coins = [i \in 1..Len(@) |->
        IF @[i].txid = txid /\ @[i].n = n
        THEN [@[i] EXCEPT !.is_spent = TRUE]
        ELSE @[i]]])

\* SQL_MARK_COIN_SPENT: an update; no matching row is no error
mark_coin_to_spent(d, txid, n, spent_txid, spent_height) ==
    Res(TRUE, [d EXCEPT !.coins = [i \in 1..Len(@) |->
        IF @[i].txid = txid /\ @[i].n = n
        THEN [@[i] EXCEPT !.is_spent = TRUE, !.spent_txid = spent_txid,
                          !.spent_height = spent_height]
        ELSE @[i]]])

\* SQL_INSERT_DEPC_DEPOSIT under index__depc_deposit_depc_txid
make_deposit(d, depc_txid, to_address_erc20, amount, depc_timestamp) ==
    IF \E r \in Rows(d.deposit) : r.depc_txid = depc_txid THEN Res(FALSE, d)
    ELSE Res(TRUE, [d EXCEPT !.deposit = Append(@,
            [depc_txid |-> depc_txid, depc_timestamp |-> depc_timestamp,
             to_address_erc20 |-> to_address_erc20, amount |-> amount,
             erc20_txid |-> NULL, erc20_timestamp |-> NoHeight])])

\* SQL_UPDATE_DEPC_DEPSOIT: an update keyed by depc_txid; no matching row is no
\* error, and a row already confirmed is overwritten
confirm_deposit(d, erc20_txid, erc20_timestamp, depc_txid) ==
    Res(TRUE, [d EXCEPT !.deposit = [i \in 1..Len(@) |->
        IF @[i].depc_txid = depc_txid
        THEN [@[i] EXCEPT !.erc20_txid = erc20_txid,
                          !.erc20_timestamp = erc20_timestamp]
        ELSE @[i]]])

\* SQL_INSERT_DEPC_WITHDRAW under index__depc_withdraw_erc20_txid
make_withdraw(d, erc20_txid, erc20_timestamp, from_address_erc20, amount) ==
    IF \E r \in Rows(d.withdraw) : r.erc20_txid = erc20_txid THEN Res(FALSE, d)
    ELSE Res(TRUE, [d EXCEPT !.withdraw = Append(@,
            [erc20_txid |-> erc20_txid, erc20_timestamp |-> erc20_timestamp,
             from_address_erc20 |-> from_address_erc20, to_address_depc |-> NULL,
             amount |-> amount, depc_txid |-> NULL, depc_timestamp |-> NoHeight])])

\* SQL_UPDATE_DEPC_WITHDRAW: an update keyed by erc20_txid
confirm_withdraw(d, depc_txid, depc_timestamp, depc_address, erc20_txid) ==
    Res(TRUE, [d EXCEPT !.withdraw = [i \in 1..Len(@) |->
        IF @[i].erc20_txid = erc20_txid
        THEN [@[i] EXCEPT !.depc_txid = depc_txid,
                          !.depc_timestamp = depc_timestamp,
                          !.to_address_depc = depc_address]
        ELSE @[i]]])

\* SQL_QUERY_BEST_HEIGHT: None on an empty table (NoHeight here)
query_best_height(d) ==
    IF Len(d.blocks) = 0 THEN NoHeight
    ELSE CHOOSE h \in {r.height : r \in Rows(d.blocks)} :
            \A r \in Rows(d.blocks) : r.height <= h

-----------------------------------------------------------------------------
(* src/src/solana/transaction_parser.rs and src/src/solana/client.rs: the   *)
(* verification of a Chain-B transaction.  A fetched transaction is         *)
(* [rpc_ok, instructions]; a parsed instruction is                          *)
(* [program, type, source, destination, amount].                            *)

VOk(a) == [ok |-> TRUE, amount |-> a, err |-> ""]
VErr(e) == [ok |-> FALSE, amount |-> 0, err |-> e]

\* lines 54-82: the type is "transfer", the program is spl_token, and the
\* source or the destination is the authority
IsRelated(ins, authority_pubkey) ==
    /\ ins.type = "transfer"
    /\ ins.program = "spl_token"
    /\ (ins.source = authority_pubkey \/ ins.destination = authority_pubkey)

parse_tpl_token_signature(tx, authority_pubkey) ==
    IF ~tx.rpc_ok THEN [ok |-> FALSE, records |-> <<>>]
    ELSE [ok |-> TRUE,
          records |-> SelectSeq(tx.instructions,
                                LAMBDA ins : IsRelated(ins, authority_pubkey))]

verify(tx, owner) ==
    LET r == parse_tpl_token_signature(tx, owner)
    IN  IF ~r.ok THEN VErr("CannotGetTransactionInfo")
        ELSE IF Len(r.records) = 0 THEN VErr("NotARelatedTransactionOfAuthority")
        ELSE IF Len(r.records) > 1
             THEN VErr("MoreThanOneRelatedInstructionsFoundFrom1Transaction")
        ELSE VOk(r.records[1].amount)

-----------------------------------------------------------------------------
(* The two chains the bridge talks to (its inputs).                         *)

TokenTransfer(src, dst, a) ==
    [program |-> "spl_token", type |-> "transfer", source |-> src,
     destination |-> dst, amount |-> a]

\* Chain-B: the transactions the node serves, by signature
BChain(sig) ==
    CASE sig = "SIG_B" ->
            [rpc_ok |-> TRUE, instructions |-> <<TokenTransfer("USER", AUTH_B, 7000)>>]
      [] sig = "SIG_SMALL" ->
            [rpc_ok |-> TRUE, instructions |-> <<TokenTransfer("USER", AUTH_B, 1000)>>]
      [] OTHER -> [rpc_ok |-> FALSE, instructions |-> <<>>]

\* scripts, as bytes
P2PKH == <<118, 169, 1, 7, 136, 172>>
\* 6a 04 LE_u32(len + 2) push(len) payload
OpReturnScript(payload) ==
    <<OP_RETURN, 4, Len(payload) + 2, 0, 0, 0, Len(payload)>> \o payload
\* a declared length that disagrees with the payload
OpReturnBadLength == <<OP_RETURN, 4, 9, 0, 0, 0, 1, 82>>
\* a push size that disagrees with the payload: 5 announced, 1 byte pushed
OpReturnBadPush == <<OP_RETURN, 4, 3, 0, 0, 0, 5, 82>>
\* a script too short to carry the header
OpReturnShort == <<OP_RETURN, 1, 82>>
\* payloads: a bare recipient; a recipient and a signature
PayloadDeposit == <<82>>
PayloadWithdraw == <<65, 83>>

In(cb, t, v) == [coinbase |-> cb, txid |-> t, vout |-> v]
Out(n, v, addr, script) ==
    [n |-> n, value64 |-> v, address |-> addr, script_hex |-> HexEncode(script)]

TxIds == {"t1", "t2", "t3", "t4", "t5", "t6", "t7", "t8", "t9", "t10"}

\* Chain-A: the transactions the node serves, by txid
Transaction(txid) ==
    CASE txid = "t1" ->  \* S2: pays the authority 5000, names a recipient
            [txid |-> txid, vin |-> <<In(TRUE, NULL, 0)>>,
             vout |-> <<Out(0, 5000, OWNER, P2PKH),
                        Out(1, 0, NULL, OpReturnScript(PayloadDeposit))>>]
      [] txid = "t2" ->  \* S3: pays the authority the threshold, names a recipient
            [txid |-> txid, vin |-> <<In(TRUE, NULL, 0)>>,
             vout |-> <<Out(0, DEPOSIT_THRESHOLD, OWNER, P2PKH),
                        Out(1, 0, NULL, OpReturnScript(PayloadDeposit))>>]
      [] txid = "t3" ->  \* S4: pays the authority nothing, names recipient and burn
            [txid |-> txid, vin |-> <<In(TRUE, NULL, 0)>>,
             vout |-> <<Out(0, 300, ALICE, P2PKH),
                        Out(1, 0, NULL, OpReturnScript(PayloadWithdraw))>>]
      [] txid = "t4" ->  \* outputs of the authority that carry OP_RETURN scripts
            [txid |-> txid, vin |-> <<In(TRUE, NULL, 0)>>,
             vout |-> <<Out(0, 0, OWNER, OpReturnScript(PayloadWithdraw)),
                        Out(1, DEPOSIT_THRESHOLD, OWNER, OpReturnScript(PayloadDeposit))>>]
      [] txid = "t7" ->
            [txid |-> txid, vin |-> <<In(TRUE, NULL, 0)>>,
             vout |-> <<Out(0, 5000, OWNER, OpReturnScript(PayloadDeposit)),
                        Out(1, 2000, OWNER, OpReturnScript(PayloadDeposit))>>]
      [] txid = "t8" ->  \* one more output of the authority with a directive
            [txid |-> txid, vin |-> <<In(TRUE, NULL, 0)>>,
             vout |-> <<Out(0, 3000, OWNER, OpReturnScript(PayloadDeposit))>>]
      [] txid = "t10" ->  \* pays the authority and carries a signal-only output
            [txid |-> txid, vin |-> <<In(TRUE, NULL, 0)>>,
             vout |-> <<Out(0, 3000, OWNER, OpReturnScript(PayloadDeposit)),
                        Out(1, 0, OWNER, OpReturnScript(PayloadWithdraw))>>]
      [] txid = "t9" ->  \* malformed directives of the other kinds
            [txid |-> txid, vin |-> <<In(TRUE, NULL, 0)>>,
             vout |-> <<Out(0, 2000, ALICE, P2PKH),
                        Out(1, 0, NULL, OpReturnShort),
                        Out(2, 2000, OWNER, OpReturnBadPush)>>]
      [] txid = "t5" ->  \* spends the authority's coin of t1
            [txid |-> txid, vin |-> <<In(FALSE, "t1", 0)>>,
             vout |-> <<Out(0, 4000, ALICE, P2PKH),
                        Out(1, 600, OWNER, OpReturnBadLength)>>]
      [] OTHER ->          \* S5: a malformed directive beside an ordinary output
            [txid |-> txid, vin |-> <<In(TRUE, NULL, 0)>>,
             vout |-> <<Out(0, 0, NULL, OpReturnBadLength),
                        Out(1, 2000, OWNER, P2PKH)>>]

\* the transaction lists a block may carry
BlockMenu ==
    IF directive = "stub"
    THEN {<<"t1">>, <<"t2", "t3">>, <<"t4">>, <<"t1", "t5">>, <<"t6", "t7">>,
          <<"t5">>, <<"t9">>}
    ELSE IF directive = "deposit" THEN {<<"t7">>, <<"t8">>}
    ELSE {<<"t4">>, <<"t7">>, <<"t1", "t5">>, <<"t8">>, <<"t8", "t10">>}

TxOf(b) == {b.tx[i] : i \in 1..Len(b.tx)}
ChainTxs(c) == UNION {TxOf(c[i]) : i \in 1..Len(c)}
Genesis == [hash |-> "h0", height |-> 0, miner |-> "M", time |-> 100, tx |-> <<"g">>]
HashAt(h) == CASE h = 0 -> "h0" [] h = 1 -> "h1" [] h = 2 -> "h2" [] OTHER -> "h3"

-----------------------------------------------------------------------------
(* src/src/bridge/bridge.rs: run_depc_syncing, one transaction output.      *)

\* nothing handed to verify, nothing returned, no call of the Conn API yet
NoTx == [rpc_ok |-> FALSE, instructions |-> <<>>]
NotCalled == [ok |-> FALSE, amount |-> 0, err |-> "not called"]
NotDecoded == [by |-> "none", tag |-> "", err |-> "", text |-> <<>>]
NoCall == [op |-> "none", key |-> "", ok |-> TRUE, before |-> EmptyDb]

NoEvent == [kind |-> "none", sender_address |-> "", recipient_address |-> "",
            amount |-> 0, of_txid |-> "", of_sig |-> ""]
\* DepositInfo / WithdrawInfo; of_txid and of_sig are history, not fields of
\* the structs: the transaction and the burn the event was produced for
\* an event that carries the amount less one unit
DepositInfoNet(sender, recipient, amount, txid) ==
    [kind |-> "deposit", sender_address |-> sender, recipient_address |-> recipient,
     amount |-> amount - 1, of_txid |-> txid, of_sig |-> ""]
DepositInfo(sender, recipient, amount, txid) ==
    [kind |-> "deposit", sender_address |-> sender, recipient_address |-> recipient,
     amount |-> amount, of_txid |-> txid, of_sig |-> ""]
WithdrawInfo(sender, recipient, amount, txid, sig) ==
    [kind |-> "withdraw", sender_address |-> sender, recipient_address |-> recipient,
     amount |-> amount, of_txid |-> txid, of_sig |-> sig]

\* what one txout led to: the Ledger after it, where run_depc_syncing goes on,
\* the event to send, the decoded script and what verify returned if called
Outcome(d, to, ev) ==
    [db |-> d, to |-> to, event |-> ev, sd |-> Err(""), verified |-> NotCalled]

\* C::Address::from_str: a string that is no public key is an error
ValidPubkey(a) == a \notin {"", "!bad"}

\* line 316 evaluates "".parse().unwrap() into a Signature: it panics or yields
\* a value (written "" here), as the Signature type's FromStr decides
EmptySignatureParses == BOOLEAN

\* lines 283-284
IsDeposit(txout, script_data) ==
    txout.value64 > DEPOSIT_THRESHOLD /\ script_data.recipient # ""

\* lines 314-315, before the signature is compared
IsWithdrawCandidate(txout, script_data) ==
    txout.value64 = 0 /\ script_data.recipient # ""

\* a threshold that lets the amount WITHDRAW_THRESHOLD itself pass
withdraw_branch_ge(d, txid, script_data) ==
    LET res == verify(BChain(script_data.signature), AUTH_B)
        o == IF ~res.ok THEN Outcome(d, "panic", NoEvent)
             ELSE IF res.amount >= WITHDRAW_THRESHOLD
             THEN Outcome(d, "send_withdraw",
                          WithdrawInfo(OWNER, script_data.recipient, res.amount,
                                       txid, script_data.signature))
             ELSE Outcome(d, "next", NoEvent)
    IN  {[o EXCEPT !.verified = res]}

\* lines 318-339: the burn is verified and, above the threshold, an event made
withdraw_branch(d, txid, script_data) ==
    LET res == verify(BChain(script_data.signature), AUTH_B)
        o == IF ~res.ok THEN Outcome(d, "panic", NoEvent)    \* todo!()
             ELSE IF res.amount > WITHDRAW_THRESHOLD
             THEN Outcome(d, "send_withdraw",
                          WithdrawInfo(OWNER, script_data.recipient, res.amount,
                                       txid, script_data.signature))
             ELSE Outcome(d, "next", NoEvent)
    IN  {[o EXCEPT !.verified = res]}

\* lines 283-340: the outcomes for an output of the authority whose script
\* decoded to script_data
classify(d, txid, txout, script_data, time) ==
    IF IsDeposit(txout, script_data) THEN
        LET r == make_deposit(d, txid, script_data.recipient, txout.value64, time)
        IN  IF ~r.ok THEN {Outcome(d, "panic", NoEvent)}
            ELSE IF ~ValidPubkey(script_data.recipient)
                 THEN {Outcome(r.db, "panic", NoEvent)}
            ELSE {Outcome(r.db, "send_deposit",
                          DepositInfo(AUTH_B, script_data.recipient,
                                      txout.value64, txid))}
    ELSE IF IsWithdrawCandidate(txout, script_data) THEN
        UNION {IF ~parses THEN {Outcome(d, "panic", NoEvent)}
               ELSE IF script_data.signature # "" THEN withdraw_branch(d, txid, script_data)
               ELSE {Outcome(d, "next", NoEvent)} : parses \in EmptySignatureParses}
    ELSE {Outcome(d, "next", NoEvent)}

\* lines 265-344: one txout
process_txout(d, txid, txout, time) ==
    IF txout.address = NULL THEN {Outcome(d, "next", NoEvent)}
    ELSE
      LET r == add_coin(d, txid, txout.n, txout.value64, txout.address,
                        txout.script_hex)
      IN  IF ~r.ok THEN {Outcome(d, "panic", NoEvent)}
          ELSE IF txout.address # OWNER THEN {Outcome(r.db, "next", NoEvent)}
          ELSE UNION {CASE sd.tag = "Panic" -> {Outcome(r.db, "panic", NoEvent)}
                        [] sd.tag = "Err" -> {Outcome(r.db, "next", NoEvent)}
                        [] OTHER -> {[o EXCEPT !.sd = sd] :
                                        o \in classify(r.db, txid, txout, sd, time)}
                      : sd \in extract_string_from_script_hex(txout.script_hex)}

\* a loop that marks for the coinbase inputs instead
RECURSIVE mark_inputs_coinbase(_, _, _, _)
mark_inputs_coinbase(d, vin, txid, height) ==
    IF Len(vin) = 0 THEN d
    ELSE LET i == Head(vin)
             d1 == IF ~i.coinbase THEN d
                   ELSE mark_coin_to_spent(d, i.txid, i.vout, txid, height).db
         IN  mark_inputs_coinbase(d1, Tail(vin), txid, height)

\* lines 252-264: every txin that is no coinbase marks its coin spent
RECURSIVE mark_inputs(_, _, _, _)
mark_inputs(d, vin, txid, height) ==
    IF Len(vin) = 0 THEN d
    ELSE LET i == Head(vin)
             d1 == IF i.coinbase THEN d
                   ELSE mark_coin_to_spent(d, i.txid, i.vout, txid, height).db
         IN  mark_inputs(d1, Tail(vin), txid, height)

-----------------------------------------------------------------------------
(* The state after construction, and the environment.                       *)

NoLast == [txid |-> "", n |-> 0, sd |-> Err(""), to |-> "", verified |-> NotCalled]

InitHist == [runs |-> 0, fetched |-> <<>>, ingested |-> {}, last |-> NoLast,
             sentD |-> <<>>, sentW |-> <<>>, minted |-> <<>>, paid |-> <<>>]

\* a cursor that starts at 0 whatever the Ledger holds
start_height_zero(d) == 0

\* a cursor that starts at the best height itself
start_height_same(d) ==
    IF query_best_height(d) = NoHeight THEN 0 ELSE query_best_height(d)

\* lines 211-216 on a Ledger d: the cursor
start_height(d) ==
    IF query_best_height(d) = NoHeight THEN 0 ELSE query_best_height(d) + 1

InitBridge(dir, h) ==
    /\ chain = <<Genesis>>
    /\ db = EmptyDb
    /\ committed = EmptyDb
    /\ inTxn = TRUE
    /\ exit = FALSE
    /\ ipc = "loop"
    /\ sync_height = start_height(EmptyDb)
    /\ txi = 1
    /\ oi = 1
    /\ pending = NoEvent
    /\ depositQ = <<>>
    /\ withdrawQ = <<>>
    /\ dpc = "loop"
    /\ wpc = "loop"
    /\ wcur = NoEvent
    /\ hist = h
    /\ directive = dir
    /\ signal = "none"
    /\ vres = NotCalled
    /\ lcall = NoCall
    /\ decoded = NotDecoded

InitWithHist(dir, h) == InitBridge(dir, h) /\ hex_str_in = <<>>

InitWith(dir) == InitWithHist(dir, InitHist)

Init == InitWith("stub") /\ vtx = NoTx

\* the node learns of a new block; a faulty node may report a wrong height
ChainGrow ==
    /\ Len(chain) <= MaxHeight
    /\ \E txs \in BlockMenu, h \in {Len(chain), Len(chain) + 1} :
        /\ TxOf([tx |-> txs]) \cap ChainTxs(chain) = {}
        /\ chain' = Append(chain, [hash |-> HashAt(Len(chain)), height |-> h,
                                   miner |-> "M", time |-> 100 + Len(chain),
                                   tx |-> txs])
    /\ UNCHANGED <<db, committed, inTxn, exit, ipc, sync_height, txi, oi, pending,
                   depositQ, withdrawQ, dpc, wpc, wcur, hist, directive, signal, vtx, vres, lcall,
                   hex_str_in, decoded>>

\* shutdown_signal (src/src/main.rs lines 241-269), the ctrl_c future: an
\* interrupt is received and the latch is set.  The Bridge of bridge.rs makes
\* a latch of its own (line 80) that nothing in bridge.rs sets; its setter is
\* taken to be the same handler.
SetExit ==
    /\ ~exit
    /\ signal = "none"
    /\ exit' = TRUE
    /\ signal' = "interrupt"
    /\ UNCHANGED <<chain, db, committed, inTxn, ipc, sync_height, txi, oi, pending,
                   depositQ, withdrawQ, dpc, wpc, wcur, hist, directive, vtx, vres, lcall,
                   hex_str_in, decoded>>

\* shutdown_signal, the terminate future (lines 254-260): a terminate signal
\* is received and the future completes; select! then drops the ctrl_c future
terminate ==
    /\ signal = "none"
    /\ signal' = "terminate"
    /\ UNCHANGED <<chain, db, committed, inTxn, exit, ipc, sync_height, txi, oi,
                   pending, depositQ, withdrawQ, dpc, wpc, wcur, hist, directive, vtx, vres,
                   lcall, hex_str_in, decoded>>

\* the process ends (killed, or after its tasks returned) and is started
\* again: what was not committed is gone, the channels are new, and
\* run_depc_syncing runs lines 211-216
Restart ==
    /\ hist.runs < MaxRuns
    /\ db' = committed
    /\ inTxn' = TRUE
    /\ exit' = FALSE
    /\ ipc' = "loop"
    /\ sync_height' = start_height(committed)
    /\ txi' = 1
    /\ oi' = 1
    /\ pending' = NoEvent
    /\ depositQ' = <<>>
    /\ withdrawQ' = <<>>
    /\ dpc' = "loop"
    /\ wpc' = "loop"
    /\ wcur' = NoEvent
    /\ hist' = [hist EXCEPT !.runs = @ + 1, !.fetched = <<>>, !.last = NoLast]
    /\ signal' = "none"
    /\ UNCHANGED <<chain, committed, directive, vtx, vres, lcall, hex_str_in, decoded>>

-----------------------------------------------------------------------------
(* src/src/bridge/bridge.rs: run_depc_syncing.                              *)

Tip == Len(chain) - 1
CurBlock == chain[sync_height + 1]
\* the transactions of a block taken last first
CurTxidReversed == CurBlock.tx[Len(CurBlock.tx) + 1 - txi]
CurTxid == CurBlock.tx[txi]
CurTx == Transaction(CurTxid)

IPanic ==
    /\ ipc' = "panicked"
    /\ UNCHANGED <<sync_height, txi, oi, pending>>

\* an exit that rolls the batch back
IExitRollback ==
    /\ ipc = "loop"
    /\ exit
    /\ ipc' = "done"
    /\ db' = committed
    /\ inTxn' = FALSE
    /\ UNCHANGED <<chain, committed, exit, sync_height, txi, oi, pending, depositQ,
                   withdrawQ, dpc, wpc, wcur, hist, directive, signal, vtx, vres, lcall,
                   hex_str_in, decoded>>

\* lines 219-223 and 350: the latch is set, the batch is committed
IExit ==
    /\ ipc = "loop"
    /\ exit
    /\ ipc' = "done"
    /\ committed' = db
    /\ inTxn' = FALSE
    /\ UNCHANGED <<chain, db, exit, sync_height, txi, oi, pending, depositQ,
                   withdrawQ, dpc, wpc, wcur, hist, directive, signal, vtx, vres, lcall,
                   hex_str_in, decoded>>

\* lines 225-230: nothing to sync, sleep
IIdle ==
    /\ ipc = "loop"
    /\ ~exit
    /\ sync_height > Tip
    /\ UNCHANGED vars

\* an RPC of lines 225, 237, 238 or 247 fails: unwrap panics
IRpcFail ==
    /\ \/ ipc = "loop" /\ ~exit
       \/ ipc = "tx" /\ txi <= Len(CurBlock.tx)
    /\ IPanic
    /\ UNCHANGED <<chain, db, committed, inTxn, exit, depositQ, withdrawQ, dpc, wpc, wcur,
                   hist, directive, signal, vtx, vres, lcall,
                   hex_str_in, decoded>>

\* a cursor that moves on by two
next_height_skip(h) == h + 2

\* the cursor after a block, line 348
next_height(h) == h + 1

\* a fetch that goes through the transactions of every block, block 0 too
IFetchBlockAll ==
    /\ ipc = "loop"
    /\ ~exit
    /\ sync_height <= Tip
    /\ LET block == CurBlock
           r == add_block(db, block.hash, sync_height, block.miner, block.time)
       IN  /\ hist' = [hist EXCEPT !.fetched = Append(@, sync_height)]
           /\ IF block.height # sync_height \/ ~r.ok
              THEN IPanic /\ UNCHANGED db
              ELSE /\ db' = r.db
                   /\ ipc' = "tx"
                   /\ txi' = 1
                   /\ UNCHANGED <<sync_height, oi, pending>>
    /\ UNCHANGED <<chain, committed, inTxn, exit, depositQ, withdrawQ, dpc, wpc, wcur,
                   directive, signal, vtx, vres, lcall,
                   hex_str_in, decoded>>

\* lines 237-244: the block at the cursor is fetched and added
IFetchBlock ==
    /\ ipc = "loop"
    /\ ~exit
    /\ sync_height <= Tip
    /\ LET block == CurBlock
           r == add_block(db, block.hash, sync_height, block.miner, block.time)
       IN  /\ hist' = [hist EXCEPT !.fetched = Append(@, sync_height)]
           /\ IF block.height # sync_height          \* assert_eq!
              THEN IPanic /\ UNCHANGED db
              ELSE IF ~r.ok                          \* add_block(..).unwrap()
              THEN IPanic /\ UNCHANGED db
              ELSE /\ db' = r.db
                   /\ IF sync_height > 0
                      THEN /\ ipc' = "tx"
                           /\ txi' = 1
                           /\ UNCHANGED <<sync_height, oi, pending>>
                      ELSE /\ sync_height' = next_height(sync_height)
                           /\ UNCHANGED <<ipc, txi, oi, pending>>
    /\ UNCHANGED <<chain, committed, inTxn, exit, depositQ, withdrawQ, dpc, wpc, wcur,
                   directive, signal, vtx, vres, lcall,
                   hex_str_in, decoded>>

\* lines 246-264: the next transaction of the block, or line 348
IBeginTx ==
    /\ ipc = "tx"
    /\ IF txi > Len(CurBlock.tx)
       THEN /\ ipc' = "loop"
            /\ sync_height' = next_height(sync_height)
            /\ UNCHANGED <<db, txi, oi, pending>>
       ELSE LET transaction == CurTx
                r == add_transaction(db, CurBlock.hash, CurTxid)
            IN  IF transaction.txid # CurTxid \/ ~r.ok
                THEN IPanic /\ UNCHANGED db
                ELSE /\ db' = mark_inputs(r.db, transaction.vin, CurTxid, sync_height)
                     /\ ipc' = "vout"
                     /\ oi' = 1
                     /\ UNCHANGED <<sync_height, txi, pending>>
    /\ UNCHANGED <<chain, committed, inTxn, exit, depositQ, withdrawQ, dpc, wpc, wcur,
                   hist, directive, signal, vtx, vres, lcall,
                   hex_str_in, decoded>>

\* lines 265-344: the next txout of the transaction
IProcessTxOut ==
    /\ ipc = "vout"
    /\ IF oi > Len(CurTx.vout)
       THEN /\ ipc' = "tx"
            /\ txi' = txi + 1
            /\ hist' = [hist EXCEPT !.ingested = @ \cup {CurTxid}]
            /\ UNCHANGED <<db, sync_height, oi, pending>>
       ELSE \E o \in process_txout(db, CurTxid, CurTx.vout[oi], CurBlock.time) :
            /\ db' = o.db
            /\ hist' = [hist EXCEPT !.last = [txid |-> CurTxid, n |-> CurTx.vout[oi].n,
                                              sd |-> o.sd, to |-> o.to,
                                              verified |-> o.verified]]
            /\ CASE o.to = "panic" -> IPanic
                 [] o.to = "next" -> /\ oi' = oi + 1
                                     /\ UNCHANGED <<ipc, sync_height, txi, pending>>
                 [] OTHER -> /\ ipc' = o.to
                             /\ pending' = o.event
                             /\ UNCHANGED <<sync_height, txi, oi>>
    /\ UNCHANGED <<chain, committed, inTxn, exit, depositQ, withdrawQ, dpc, wpc, wcur,
                   directive, signal, vtx, vres, lcall,
                   hex_str_in, decoded>>

\* a send that does not wait: on a full channel the event is dropped
ISendDepositTrySend ==
    /\ ipc = "send_deposit"
    /\ IF dpc \in {"done", "failed", "panicked"}
       THEN IPanic /\ UNCHANGED <<depositQ, hist>>
       ELSE /\ IF Len(depositQ) < ChannelCapacity
               THEN /\ depositQ' = Append(depositQ, pending)
                    /\ hist' = [hist EXCEPT !.sentD = Append(@, pending)]
               ELSE UNCHANGED <<depositQ, hist>>
            /\ ipc' = "vout"
            /\ oi' = oi + 1
            /\ pending' = NoEvent
            /\ UNCHANGED <<sync_height, txi>>
    /\ UNCHANGED <<chain, db, committed, inTxn, exit, withdrawQ, dpc, wpc, wcur, directive, signal, vtx, vres, lcall,
                   hex_str_in, decoded>>

\* lines 304-311: tx_deposit.send(..).await.unwrap()
ISendDeposit ==
    /\ ipc = "send_deposit"
    /\ IF dpc \in {"done", "failed", "panicked"}         \* the receiver is gone
       THEN IPanic /\ UNCHANGED <<depositQ, hist>>
       ELSE /\ Len(depositQ) < ChannelCapacity
            /\ depositQ' = Append(depositQ, pending)
            /\ hist' = [hist EXCEPT !.sentD = Append(@, pending)]
            /\ ipc' = "vout"
            /\ oi' = oi + 1
            /\ pending' = NoEvent
            /\ UNCHANGED <<sync_height, txi>>
    /\ UNCHANGED <<chain, db, committed, inTxn, exit, withdrawQ, dpc, wpc, wcur, directive, signal, vtx, vres, lcall,
                   hex_str_in, decoded>>

\* lines 332-338: tx_withdraw.send(..).await.unwrap()
ISendWithdraw ==
    /\ ipc = "send_withdraw"
    /\ IF wpc \in {"done", "failed", "panicked"}
       THEN IPanic /\ UNCHANGED <<withdrawQ, hist>>
       ELSE /\ Len(withdrawQ) < ChannelCapacity
            /\ withdrawQ' = Append(withdrawQ, pending)
            /\ hist' = [hist EXCEPT !.sentW = Append(@, pending)]
            /\ ipc' = "vout"
            /\ oi' = oi + 1
            /\ pending' = NoEvent
            /\ UNCHANGED <<sync_height, txi>>
    /\ UNCHANGED <<chain, db, committed, inTxn, exit, depositQ, dpc, wpc, wcur, directive, signal, vtx, vres, lcall,
                   hex_str_in, decoded>>

-----------------------------------------------------------------------------
(* src/src/bridge/bridge.rs: deposit_processing and withdraw_processing.    *)

\* the Sender lives in run_depc_syncing: it is dropped when that task ends
SenderDropped == ipc \in {"done", "panicked"}

\* a write through the shared connection: it is durable only outside the
\* batch opened at line 216
Write(d) ==
    /\ db' = d
    /\ committed' = IF inTxn THEN committed ELSE d

\* send_token: the signature of the new Chain-B transaction, or an error
send_token_results == {"B1", "B2", "ERR"}
\* depc_client.transfer: the txid of the payout, or an error
transfer_results == {"TX_A", "ERR"}

get_curr_timestamp == 500

\* line 180: the row the confirmation is keyed by
confirm_key(deposit) == ""

\* a worker that also rewrites the amount of the saved rows
handle_deposit_rewrite(d, deposit, res) ==
    IF res # "ERR"
    THEN [d EXCEPT !.deposit = [i \in 1..Len(@) |-> [@[i] EXCEPT !.amount = 0]]]
    ELSE d

\* lines 177-189: the event is handled
handle_deposit(d, deposit, res) ==
    IF res # "ERR"
    THEN confirm_deposit(d, res, get_curr_timestamp, confirm_key(deposit)).db
    ELSE d

\* lines 169-175
DLoop ==
    /\ dpc = "loop"
    /\ dpc' = IF exit THEN "done" ELSE "recv"
    /\ UNCHANGED <<chain, db, committed, inTxn, exit, ipc, sync_height, txi, oi,
                   pending, depositQ, withdrawQ, wpc, wcur, hist, directive, signal, vtx, vres, lcall,
                   hex_str_in, decoded>>

\* lines 176-191: an event is received and handled
DRecv ==
    /\ dpc = "recv"
    /\ depositQ # <<>>
    /\ \E res \in send_token_results :
        /\ Write(handle_deposit(db, Head(depositQ), res))
        /\ hist' = [hist EXCEPT !.minted =
                        Append(@, [event |-> Head(depositQ), res |-> res])]
    /\ depositQ' = Tail(depositQ)
    /\ dpc' = "loop"
    /\ UNCHANGED <<chain, inTxn, exit, ipc, sync_height, txi, oi, pending,
                   withdrawQ, wpc, wcur, directive, signal, vtx, vres, lcall,
                   hex_str_in, decoded>>

\* line 176: recv() yields None once the sender is dropped
DRecvNone ==
    /\ dpc = "recv"
    /\ depositQ = <<>>
    /\ SenderDropped
    /\ dpc' = "loop"
    /\ UNCHANGED <<chain, db, committed, inTxn, exit, ipc, sync_height, txi, oi,
                   pending, depositQ, withdrawQ, wpc, wcur, hist, directive, signal, vtx, vres, lcall,
                   hex_str_in, decoded>>

\* lines 135-141
WLoop ==
    /\ wpc = "loop"
    /\ wpc' = IF exit THEN "done" ELSE "recv"
    /\ UNCHANGED <<chain, db, committed, inTxn, exit, ipc, sync_height, txi, oi,
                   pending, depositQ, withdrawQ, dpc, wcur, hist, directive, signal, vtx, vres, lcall,
                   hex_str_in, decoded>>

\* line 142: an event is received, its place in the channel is free again
WRecv ==
    /\ wpc = "recv"
    /\ withdrawQ # <<>>
    /\ wcur' = Head(withdrawQ)
    /\ withdrawQ' = Tail(withdrawQ)
    /\ wpc' = "transfer"
    /\ UNCHANGED <<chain, db, committed, inTxn, exit, ipc, sync_height, txi, oi,
                   pending, depositQ, dpc, hist, directive, signal, vtx, vres, lcall,
                   hex_str_in, decoded>>

\* lines 143-153: the transfer fails (return Err) or succeeds (todo!() panics)
WTransfer ==
    /\ wpc = "transfer"
    /\ \E res \in transfer_results :
        /\ wpc' = IF res = "ERR" THEN "failed" ELSE "panicked"
        /\ hist' = [hist EXCEPT !.paid = Append(@, [event |-> wcur, res |-> res])]
    /\ wcur' = NoEvent
    /\ UNCHANGED <<chain, db, committed, inTxn, exit, ipc, sync_height, txi, oi,
                   pending, depositQ, withdrawQ, dpc, directive, signal, vtx, vres, lcall,
                   hex_str_in, decoded>>

WRecvNone ==
    /\ wpc = "recv"
    /\ withdrawQ = <<>>
    /\ SenderDropped
    /\ wpc' = "loop"
    /\ UNCHANGED <<chain, db, committed, inTxn, exit, ipc, sync_height, txi, oi,
                   pending, depositQ, withdrawQ, dpc, wcur, hist, directive, signal, vtx, vres, lcall,
                   hex_str_in, decoded>>

-----------------------------------------------------------------------------
(* The specifications.                                                      *)

\* the steps the bridge can take as written: with the decoder's stub no event
\* is ever sent, so the sends and receives of events are never enabled
Next ==
    \/ ChainGrow
    \/ SetExit
    \/ Restart
    \/ IExit
    \/ IIdle
    \/ IRpcFail
    \/ IFetchBlock
    \/ IBeginTx
    \/ IProcessTxOut
    \/ DLoop
    \/ DRecvNone
    \/ WLoop
    \/ WRecvNone

Spec == Init /\ [][Next]_vars

\* the bridge with a decoder that yields any directive where the stub stands
InitDirective == InitWith("any") /\ vtx = NoTx

\* one run of the bridge, from its start to its exit or its panic
NextDirective ==
    \/ ChainGrow
    \/ SetExit
    \/ IExit
    \/ IIdle
    \/ IRpcFail
    \/ IFetchBlock
    \/ IBeginTx
    \/ IProcessTxOut
    \/ DLoop
    \/ DRecvNone
    \/ WLoop
    \/ WRecvNone
    \/ ISendDeposit
    \/ ISendWithdraw
    \/ DRecv
    \/ WRecv
    \/ WTransfer

SpecDirective == InitDirective /\ [][NextDirective]_vars

\* the last run but one of the bridge, and the last: the process is killed or
\* ends, and is started again; the decoder yields a recipient
InitRerun ==
    InitWithHist("deposit", [InitHist EXCEPT !.runs = MaxRuns - 1]) /\ vtx = NoTx

NextRerun ==
    \/ ChainGrow
    \/ SetExit
    \/ Restart
    \/ IExit
    \/ IIdle
    \/ IRpcFail
    \/ IFetchBlock
    \/ IBeginTx
    \/ IProcessTxOut
    \/ ISendDeposit
    \/ DLoop
    \/ DRecv
    \/ DRecvNone
    \/ WLoop
    \/ WRecvNone

SpecRerun == InitRerun /\ [][NextRerun]_vars

-----------------------------------------------------------------------------
(* The bridge on a node that serves a transaction again.                    *)

\* the node serves, at the next height, a block that carries a transaction an
\* earlier block carried (as after a reorganisation that moved it)
ChainGrowRepeat ==
    /\ Len(chain) <= MaxHeight
    /\ \E txs \in BlockMenu :
        /\ TxOf([tx |-> txs]) \cap ChainTxs(chain) # {}
        /\ chain' = Append(chain, [hash |-> HashAt(Len(chain)), height |-> Len(chain),
                                   miner |-> "M", time |-> 100 + Len(chain),
                                   tx |-> txs])
    /\ UNCHANGED <<db, committed, inTxn, exit, ipc, sync_height, txi, oi, pending,
                   depositQ, withdrawQ, dpc, wpc, wcur, hist, directive, signal, vtx, vres, lcall,
                   hex_str_in, decoded>>

\* one run of the bridge as written, every RPC answered
NextRepeat ==
    \/ ChainGrow
    \/ ChainGrowRepeat
    \/ SetExit
    \/ IExit
    \/ IIdle
    \/ IFetchBlock
    \/ IBeginTx
    \/ IProcessTxOut
    \/ DLoop
    \/ DRecvNone
    \/ WLoop
    \/ WRecvNone

SpecRepeat == Init /\ [][NextRepeat]_vars

-----------------------------------------------------------------------------
(* SolanaClient::verify on the transactions a Chain-B node can serve.       *)

\* the most instructions a Chain-B transaction carries
MaxInstructions == 2

InstructionMenu ==
    {[program |-> p, type |-> t, source |-> s, destination |-> d, amount |-> a] :
        p \in {"spl_token", "system"}, t \in {"transfer", "mintTo"},
        s \in {AUTH_B, "USER"}, d \in {AUTH_B, "USER"}, a \in {7000, 300}}

BTransactions ==
    {NoTx} \cup
    {[rpc_ok |-> TRUE, instructions |-> ins] :
        ins \in UNION {[1..n -> InstructionMenu] : n \in 0..MaxInstructions}}

InitVerify == InitWith("stub") /\ vtx \in BTransactions

\* src/src/bridge/bridge.rs line 318: verify(&signature, &authority)
VVerify ==
    /\ vres = NotCalled
    /\ vres' = verify(vtx, AUTH_B)
    /\ UNCHANGED <<bridgeVars, db, vtx, lcall>>

NextVerify == VVerify

SpecVerify == InitVerify /\ [][NextVerify]_vars

-----------------------------------------------------------------------------
(* The Conn API of src/src/db/conn.rs, called in any order.                 *)

DepositKeys == {"t1", "t2"}
BSignatures == {"B1", "B2"}
WithdrawKeys == {"SIG_B", "SIG_SMALL"}
ASignatures == {"TX_A", "TX_A2"}
Timestamps == {500, 501}

Called(op, key, r) == [op |-> op, key |-> key, ok |-> r.ok, before |-> db]

LMakeDeposit ==
    /\ \E k \in DepositKeys :
         LET r == make_deposit(db, k, "RCP", 5000, 100)
         IN  db' = r.db /\ lcall' = Called("make_deposit", k, r)
    /\ UNCHANGED <<bridgeVars, vtx, vres>>

LConfirmDeposit ==
    /\ \E k \in DepositKeys \cup {""}, sig \in BSignatures, ts \in Timestamps :
         LET r == confirm_deposit(db, sig, ts, k)
         IN  db' = r.db /\ lcall' = Called("confirm_deposit", k, r)
    /\ UNCHANGED <<bridgeVars, vtx, vres>>

LMakeWithdraw ==
    /\ \E k \in WithdrawKeys :
         LET r == make_withdraw(db, k, 400, "USER", 7000)
         IN  db' = r.db /\ lcall' = Called("make_withdraw", k, r)
    /\ UNCHANGED <<bridgeVars, vtx, vres>>

LConfirmWithdraw ==
    /\ \E k \in WithdrawKeys, txid \in ASignatures, ts \in Timestamps :
         LET r == confirm_withdraw(db, txid, ts, "RCP_A", k)
         IN  db' = r.db /\ lcall' = Called("confirm_withdraw", k, r)
    /\ UNCHANGED <<bridgeVars, vtx, vres>>

InitLedger == InitWith("stub") /\ vtx = NoTx

NextLedger ==
    \/ LMakeDeposit
    \/ LConfirmDeposit
    \/ LMakeWithdraw
    \/ LConfirmWithdraw

SpecLedger == InitLedger /\ [][NextLedger]_vars

-----------------------------------------------------------------------------
(* The coin operations of the Conn API, called in any order.                *)

CoinKeys == {<<"t1", 0>>, <<"t1", 1>>}
Spenders == {"t5", "t6"}
SpentHeights == {1, 2}

LAddCoin ==
    /\ \E k \in CoinKeys :
         LET r == add_coin(db, k[1], k[2], 5000, OWNER, HexEncode(P2PKH))
         IN  db' = r.db /\ lcall' = Called("add_coin", k[1], r)
    /\ UNCHANGED <<bridgeVars, vtx, vres>>

LMarkCoinToSpent ==
    /\ \E k \in CoinKeys, s \in Spenders, h \in SpentHeights :
         LET r == mark_coin_to_spent(db, k[1], k[2], s, h)
         IN  db' = r.db /\ lcall' = Called("mark_coin_to_spent", k[1], r)
    /\ UNCHANGED <<bridgeVars, vtx, vres>>

NextCoins ==
    \/ LAddCoin
    \/ LMarkCoinToSpent

SpecCoins == InitLedger /\ [][NextCoins]_vars

-----------------------------------------------------------------------------
(* src/src/bridge/depc_script.rs: the decoder that yields the pushed text,  *)
(* which is what sync (src/src/sync/syncing.rs) passes on as the recipient. *)
(* A text is the sequence of its bytes.                                     *)

IsContinuation(b) == b >= 128 /\ b <= 191

\* std::str::from_utf8 of lines 84-89: whether the bytes are well-formed UTF-8
RECURSIVE from_utf8(_)
from_utf8(b) ==
    IF Len(b) = 0 THEN TRUE
    ELSE LET c == b[1]
             n == Len(b)
         IN  IF c < 128 THEN from_utf8(Tail(b))
             ELSE IF c >= 194 /\ c <= 223 THEN
                 n >= 2 /\ IsContinuation(b[2]) /\ from_utf8(SubSeq(b, 3, n))
             ELSE IF c >= 224 /\ c <= 239 THEN
                 /\ n >= 3 /\ IsContinuation(b[2]) /\ IsContinuation(b[3])
                 /\ (c = 224 => b[2] >= 160) /\ (c = 237 => b[2] <= 159)
                 /\ from_utf8(SubSeq(b, 4, n))
             ELSE IF c >= 240 /\ c <= 244 THEN
                 /\ n >= 4 /\ IsContinuation(b[2]) /\ IsContinuation(b[3])
                 /\ IsContinuation(b[4])
                 /\ (c = 240 => b[2] >= 144) /\ (c = 244 => b[2] <= 143)
                 /\ from_utf8(SubSeq(b, 5, n))
             ELSE FALSE

\* lines 46-89
depc_script_decode_script_after_op_return(script) ==
    IF Len(script) = 0 THEN {Err("InvalidScript")}
    ELSE
      LET opcode == script[1]
          bad == [ok |-> FALSE, size |-> 0, start_index |-> 0]
          hdr ==
            IF opcode < OP_PUSHDATA1 THEN
                [ok |-> TRUE, size |-> opcode, start_index |-> 1]
            ELSE IF opcode = OP_PUSHDATA1 THEN
                IF Len(script) < 2 THEN bad
                ELSE [ok |-> TRUE, size |-> script[2], start_index |-> 2]
            ELSE IF opcode = OP_PUSHDATA2 THEN
                IF Len(script) < 3 THEN bad
                ELSE [ok |-> TRUE, size |-> from_le_bytes(SubSeq(script, 2, 3)),
                      start_index |-> 3]
            ELSE IF opcode = OP_PUSHDATA4 THEN
                IF Len(script) < 5 THEN bad
                ELSE [ok |-> TRUE, size |-> from_le_bytes(SubSeq(script, 2, 5)),
                      start_index |-> 5]
            ELSE [ok |-> TRUE, size |-> 1, start_index |-> 1]
          slice == SubSeq(script, hdr.start_index + 1, Len(script))
      IN  IF ~hdr.ok THEN {Err("InvalidScript")}
          ELSE IF Len(slice) # hdr.size THEN {Panic}        \* assert_eq!
          ELSE IF ~from_utf8(slice) THEN {Err("InvalidStringFromScript")}
          ELSE {Ok(slice, "")}

\* lines 17-39
depc_script_extract_string_from_script_hex(hex_str) ==
    LET d == HexDecode(hex_str)
        data == d.bytes
    IN  IF ~d.ok THEN {Err("InvalidHex")}
        ELSE IF (IF Len(data) = 0 THEN 0 ELSE data[1]) # OP_RETURN
             THEN {Err("NotOPReturn")}
        ELSE IF Len(data) < 6 THEN {Panic}
        ELSE LET size == from_le_bytes(SubSeq(data, 3, 6))
             IN  IF size = 0 THEN {Panic, Err("InvalidScript")}
                 ELSE IF size - 1 # Len(data) - 6 THEN {Err("InvalidScript")}
                 ELSE depc_script_decode_script_after_op_return(
                          SubSeq(data, 7, Len(data)))

-----------------------------------------------------------------------------
(* The two decoders applied to script_hex strings.                          *)

\* the longest payload of the enumerated scripts
MaxPayload == 2

\* payloads of the bytes 'h', 'i', and 0xff, which no UTF-8 text contains
Payloads == UNION {[1..n -> {104, 105, 255}] : n \in 0..MaxPayload}

le_bytes(v, width) == [i \in 1..width |-> (v \div (256 ^ (i - 1))) % 256]

PushKinds == {"direct", "pushdata1", "pushdata2", "pushdata4"}

\* the push prefix of kind k announcing size bytes
PushPrefix(k, size) ==
    CASE k = "direct" -> <<size>>
      [] k = "pushdata1" -> <<OP_PUSHDATA1, size>>
      [] k = "pushdata2" -> <<OP_PUSHDATA2>> \o le_bytes(size, 2)
      [] k = "pushdata4" -> <<OP_PUSHDATA4>> \o le_bytes(size, 4)

\* the bytes first || second || LE u32 declared || prefix(k, size) || payload
ScriptBytes(first, second, declared, k, size, payload) ==
    <<first, second>> \o le_bytes(declared, 4) \o PushPrefix(k, size) \o payload

\* "hello world again", the payload of tests::test
HelloPayload == <<104, 101, 108, 108, 111, 32, 119, 111, 114, 108, 100, 32,
                  97, 103, 97, 105, 110>>

\* the scripts handed to the decoders: every header around every payload with
\* a right or wrong first byte, declared length and push size; every short
\* byte string; strings that are no hex
ScriptMenu ==
    {HexEncode(ScriptBytes(f, 4, Len(PushPrefix(k, 0)) + Len(p) + 1 + dl, k,
                           Len(p) + ds, p)) :
        f \in {OP_RETURN, 81}, k \in PushKinds, p \in Payloads,
        dl \in {0, 1}, ds \in {0, 1}}
    \cup {HexEncode(ScriptBytes(OP_RETURN, 4, 0, "direct", Len(p), p)) :
              p \in Payloads}
    \cup {HexEncode(b) : b \in UNION {[1..n -> {0, OP_RETURN, OP_PUSHDATA1}] :
                                         n \in 0..3}}
    \cup {HexEncode(<<OP_RETURN, 4, 1, 0, 0, 0>>),
          HexEncode(<<OP_RETURN, 4, 2, 0, 0, 0, OP_PUSHDATA1>>),
          HexEncode(<<OP_RETURN, 4, 3, 0, 0, 0, OP_PUSHDATA2, 0>>),
          HexEncode(<<OP_RETURN, 4, 4, 0, 0, 0, OP_PUSHDATA4, 0, 0>>),
          \* 6a04130000001168656c6c6f20776f726c6420616761696e
          HexEncode(ScriptBytes(OP_RETURN, 4, 19, "direct", 17, HelloPayload)),
          <<6>>, <<6, 10, 0>>, <<6, 16>>, <<16, 16>>}

InitDecode == InitBridge("stub", InitHist) /\ vtx = NoTx /\ hex_str_in \in ScriptMenu

\* src/src/depc/script.rs: extract_string_from_script_hex(hex_str); the
\* directive of lines 79-85 carries the empty string as its text
DExtract ==
    /\ decoded = NotDecoded
    /\ \E o \in extract_string_from_script_hex(hex_str_in) :
           decoded' = [by |-> "depc/script.rs", tag |-> o.tag, err |-> o.err,
                       text |-> <<>>]
    /\ UNCHANGED <<chain, db, committed, inTxn, exit, ipc, sync_height, txi, oi,
                   pending, depositQ, withdrawQ, dpc, wpc, wcur, hist, directive, signal,
                   vtx, vres, lcall, hex_str_in>>

\* src/src/bridge/depc_script.rs: extract_string_from_script_hex(hex_str)
DExtractString ==
    /\ decoded = NotDecoded
    /\ \E o \in depc_script_extract_string_from_script_hex(hex_str_in) :
           decoded' = [by |-> "bridge/depc_script.rs", tag |-> o.tag, err |-> o.err,
                       text |-> IF o.tag = "Ok" THEN o.recipient ELSE <<>>]
    /\ UNCHANGED <<chain, db, committed, inTxn, exit, ipc, sync_height, txi, oi,
                   pending, depositQ, withdrawQ, dpc, wpc, wcur, hist, directive, signal,
                   vtx, vres, lcall, hex_str_in>>

NextDecode ==
    \/ DExtract
    \/ DExtractString

SpecDecode == InitDecode /\ [][NextDecode]_vars

-----------------------------------------------------------------------------
(* src/src/sync/syncing.rs: sync, as main.rs runs it in syncing_routine     *)
(* beside deposit::consumer (src/src/bridge/deposit.rs).                    *)

Deposit(erc20_address, amount, txid) ==
    [kind |-> "deposit", sender_address |-> "", recipient_address |-> erc20_address,
     amount |-> amount, of_txid |-> txid, of_sig |-> ""]

SyncOutcome(st, d, amount, erc20_address) ==
    [st |-> st, db |-> d, amount |-> amount, erc20_address |-> erc20_address]

\* lines 66-88: the txouts of one transaction, from the first of vout on
RECURSIVE sync_vout(_, _, _, _, _, _)
sync_vout(d, txid, vout, owner_address, amount, erc20_address) ==
    IF Len(vout) = 0 THEN {SyncOutcome("ok", d, amount, erc20_address)}
    ELSE
      LET txout == Head(vout)
      IN  IF txout.address # NULL THEN
            LET r == add_coin(d, txid, txout.n, txout.value64, txout.address,
                              txout.script_hex)
            IN  IF ~r.ok THEN {SyncOutcome("failed", d, amount, erc20_address)}
                ELSE sync_vout(r.db, txid, Tail(vout), owner_address,
                               IF txout.address = owner_address
                               THEN amount + txout.value64 ELSE amount,
                               erc20_address)
          ELSE UNION {
                CASE sd.tag = "Panic" ->
                        {SyncOutcome("panic", d, amount, erc20_address)}
                  [] sd.tag = "Ok" ->
                        sync_vout(d, txid, Tail(vout), owner_address, amount,
                                  sd.recipient)
                  [] OTHER ->
                        sync_vout(d, txid, Tail(vout), owner_address, amount,
                                  erc20_address)
                : sd \in depc_script_extract_string_from_script_hex(txout.script_hex)}

\* lines 50-99: one transaction of the block, up to the send of its Deposit
sync_transaction(d, txid, transaction, height, time) ==
    LET r == add_transaction(d, CurBlock.hash, txid)
    IN  IF ~r.ok THEN {SyncOutcome("failed", d, 0, NULL)}
        ELSE UNION {
            IF o.st # "ok" THEN {o}
            ELSE IF o.erc20_address # NULL /\ o.amount > 0 THEN
                LET m == make_deposit(o.db, txid, o.erc20_address, o.amount, time)
                IN  IF ~m.ok THEN {[o EXCEPT !.st = "failed"]}
                    ELSE {[o EXCEPT !.st = "send", !.db = m.db]}
            ELSE {o}
            : o \in sync_vout(mark_inputs(r.db, transaction.vin, txid, height),
                              txid, transaction.vout, OWNER, 0, NULL)}

\* an RPC of lines 32, 43, 44 or 51 fails, or a Ledger call does: the error is
\* returned by sync and by syncing_routine, the batch stays open
SyncFailed ==
    /\ ipc' = "failed"
    /\ UNCHANGED <<sync_height, txi, oi, pending>>

SyncRpcFail ==
    /\ \/ ipc = "loop" /\ ~exit
       \/ ipc = "tx" /\ txi <= Len(CurBlock.tx)
    /\ SyncFailed
    /\ UNCHANGED <<chain, db, committed, inTxn, exit, depositQ, withdrawQ, dpc, wpc, wcur,
                   hist, directive, signal, vtx, vres, lcall,
                   hex_str_in, decoded>>

\* lines 26-35 and 106: the latch is set, or there is no block left to sync:
\* the loop is left and the batch committed
SyncBreak ==
    /\ ipc = "loop"
    /\ exit \/ sync_height > Tip
    /\ ipc' = "routine"
    /\ committed' = db
    /\ inTxn' = FALSE
    /\ UNCHANGED <<chain, db, exit, sync_height, txi, oi, pending, depositQ,
                   withdrawQ, dpc, wpc, wcur, hist, directive, signal, vtx, vres, lcall,
                   hex_str_in, decoded>>

\* src/src/main.rs lines 44-61: syncing_routine between two calls of sync; a
\* call of sync runs lines 18-23
SyncRoutine ==
    /\ ipc = "routine"
    /\ IF exit
       THEN /\ ipc' = "done"
            /\ UNCHANGED <<inTxn, sync_height>>
       ELSE /\ ipc' = "loop"
            /\ sync_height' = start_height(db)
            /\ inTxn' = TRUE
    /\ UNCHANGED <<chain, db, committed, exit, txi, oi, pending, depositQ,
                   withdrawQ, dpc, wpc, wcur, hist, directive, signal, vtx, vres, lcall,
                   hex_str_in, decoded>>

\* lines 43-48
SyncFetchBlock ==
    /\ ipc = "loop"
    /\ ~exit
    /\ sync_height <= Tip
    /\ LET block == CurBlock
           r == add_block(db, block.hash, sync_height, block.miner, block.time)
       IN  /\ hist' = [hist EXCEPT !.fetched = Append(@, sync_height)]
           /\ IF block.height # sync_height          \* assert_eq!
              THEN IPanic /\ UNCHANGED db
              ELSE IF ~r.ok                          \* add_block(..)?
              THEN SyncFailed /\ UNCHANGED db
              ELSE /\ db' = r.db
                   /\ IF sync_height > 0
                      THEN /\ ipc' = "tx"
                           /\ txi' = 1
                           /\ UNCHANGED <<sync_height, oi, pending>>
                      ELSE /\ sync_height' = next_height(sync_height)
                           /\ UNCHANGED <<ipc, txi, oi, pending>>
    /\ UNCHANGED <<chain, committed, inTxn, exit, depositQ, withdrawQ, dpc, wpc, wcur,
                   directive, signal, vtx, vres, lcall,
                   hex_str_in, decoded>>

\* lines 50-99 for the next transaction of the block, or line 104
SyncTx ==
    /\ ipc = "tx"
    /\ IF txi > Len(CurBlock.tx)
       THEN /\ ipc' = "loop"
            /\ sync_height' = next_height(sync_height)
            /\ UNCHANGED <<db, txi, oi, pending, hist>>
       ELSE IF CurTx.txid # CurTxid                  \* assert_eq!
       THEN IPanic /\ UNCHANGED <<db, hist>>
       ELSE \E o \in sync_transaction(db, CurTxid, CurTx, sync_height, CurBlock.time) :
            /\ db' = o.db
            /\ CASE o.st = "panic" -> IPanic /\ UNCHANGED hist
                 [] o.st = "failed" -> SyncFailed /\ UNCHANGED hist
                 [] o.st = "send" ->
                        /\ ipc' = "send"
                        /\ pending' = Deposit(o.erc20_address, o.amount, CurTxid)
                        /\ UNCHANGED <<sync_height, txi, oi, hist>>
                 [] OTHER ->
                        /\ txi' = txi + 1
                        /\ hist' = [hist EXCEPT !.ingested = @ \cup {CurTxid}]
                        /\ UNCHANGED <<ipc, sync_height, oi, pending>>
    /\ UNCHANGED <<chain, committed, inTxn, exit, depositQ, withdrawQ, dpc, wpc, wcur,
                   directive, signal, vtx, vres, lcall,
                   hex_str_in, decoded>>

\* line 99: tx.send(deposit).await?
SyncSend ==
    /\ ipc = "send"
    /\ IF dpc = "panicked"                            \* the receiver is gone
       THEN SyncFailed /\ UNCHANGED <<depositQ, hist>>
       ELSE /\ Len(depositQ) < ChannelCapacity
            /\ depositQ' = Append(depositQ, pending)
            /\ hist' = [hist EXCEPT !.sentD = Append(@, pending),
                                    !.ingested = @ \cup {CurTxid}]
            /\ ipc' = "tx"
            /\ txi' = txi + 1
            /\ pending' = NoEvent
            /\ UNCHANGED <<sync_height, oi>>
    /\ UNCHANGED <<chain, db, committed, inTxn, exit, withdrawQ, dpc, wpc, wcur, directive, signal,
                   vtx, vres, lcall, hex_str_in, decoded>>

\* src/src/bridge/deposit.rs lines 15-16: a Deposit is received: todo!()
ConsumerRecv ==
    /\ dpc = "loop"
    /\ depositQ # <<>>
    /\ depositQ' = Tail(depositQ)
    /\ dpc' = "panicked"
    /\ UNCHANGED <<chain, db, committed, inTxn, exit, ipc, sync_height, txi, oi,
                   pending, withdrawQ, wpc, wcur, hist, directive, signal, vtx, vres, lcall,
                   hex_str_in, decoded>>

InitSync == InitWith("stub") /\ vtx = NoTx

NextSync ==
    \/ ChainGrow
    \/ SetExit
    \/ terminate
    \/ Restart
    \/ SyncRpcFail
    \/ SyncBreak
    \/ SyncRoutine
    \/ SyncFetchBlock
    \/ SyncTx
    \/ SyncSend
    \/ ConsumerRecv

SpecSync == InitSync /\ [][NextSync]_vars

-----------------------------------------------------------------------------
(* Properties.                                                              *)

\* C1: the heights of the persisted block rows are 0, 1, 2, ... in the order
\* of insertion, without a gap; each persisted block is the block the node
\* serves at that height and reports that height; and every block fetched in
\* this run was fetched with all blocks below it persisted.
C1_LedgerMonotonic ==
    /\ \A i \in 1..Len(db.blocks) :
          /\ db.blocks[i].height = i - 1
          /\ i <= Len(chain)
          /\ chain[i].hash = db.blocks[i].hash
          /\ chain[i].height = db.blocks[i].height
    /\ \A k \in 1..Len(hist.fetched) : hist.fetched[k] <= Len(db.blocks)

\* two blocks are persisted and the third, fetched at cursor 2, reports
\* another height: it is refused
C1_Witness ==
    /\ Len(db.blocks) = 2
    /\ Len(chain) > 2
    /\ chain[3].height # 2
    /\ hist.fetched # <<>>
    /\ hist.fetched[Len(hist.fetched)] = 2
    /\ ipc = "panicked"

NoDuplicateRows(d) ==
    /\ \A i, j \in 1..Len(d.blocks) :
          (d.blocks[i].hash = d.blocks[j].hash
             \/ d.blocks[i].height = d.blocks[j].height) => i = j
    /\ \A i, j \in 1..Len(d.transactions) :
          d.transactions[i].txid = d.transactions[j].txid => i = j
    /\ \A i, j \in 1..Len(d.coins) :
          (d.coins[i].txid = d.coins[j].txid /\ d.coins[i].n = d.coins[j].n) => i = j
    /\ \A i, j \in 1..Len(d.deposit) :
          d.deposit[i].depc_txid = d.deposit[j].depc_txid => i = j
    /\ \A i, j \in 1..Len(d.withdraw) :
          d.withdraw[i].erc20_txid = d.withdraw[j].erc20_txid => i = j

\* a later run over a chain whose every block the Ledger already holds
Replaying == hist.runs > 0 /\ inTxn /\ Len(committed.blocks) = Len(chain)

\* C2: no table ever holds a duplicate row; a run over a chain prefix that is
\* already in the Ledger fetches nothing and leaves the Ledger as the earlier
\* run left it, and when it ends it ends by the normal exit with the Ledger
\* unchanged.
C2_IdempotentReplay ==
    [][ /\ NoDuplicateRows(db') /\ NoDuplicateRows(committed')
        /\ Replaying' => /\ db' = committed'
                         /\ hist'.fetched = <<>>
                         /\ sync_height' = Len(chain')
        /\ (Replaying /\ ~inTxn') => (committed' = committed /\ ipc' = "done")
      ]_vars

\* the second run over an unchanged chain of three blocks has ended normally
C2_Witness ==
    /\ hist.runs > 0
    /\ ipc = "done"
    /\ ~inTxn
    /\ hist.fetched = <<>>
    /\ Len(chain) = 3
    /\ Len(committed.blocks) = 3
    /\ Len(committed.coins) > 0
    /\ db = committed

\* C3: when the process is killed while the Ingester stands between two
\* blocks, having ingested block sync_height - 1, the Ingester of the next run
\* starts at the same cursor, and the deposit rows not yet confirmed are still
\* in the Ledger.
C3_CrashRestart ==
    [][ (hist'.runs = hist.runs + 1 /\ ipc = "loop" /\ sync_height > 1)
          => /\ sync_height' = sync_height
             /\ \A r \in Rows(db.deposit) :
                   r.erc20_txid = NULL => r \in Rows(db'.deposit)
      ]_vars

\* output i of tx credits the authority more than the threshold and is no
\* OP_RETURN output
CreditsAuthority(tx, i) ==
    /\ tx.vout[i].address = OWNER
    /\ tx.vout[i].value64 > DEPOSIT_THRESHOLD
    /\ extract_string_from_script_hex(tx.vout[i].script_hex) = {Err("NotOPReturn")}

\* tx has an address-less output whose script is a well-formed OP_RETURN push
CarriesDirective(tx) ==
    \E i \in 1..Len(tx.vout) :
        /\ tx.vout[i].address = NULL
        /\ extract_string_from_script_hex(tx.vout[i].script_hex) = DirectiveStub

\* the transactions ingested to their last output whose rows the Ledger holds
Ingested == hist.ingested \cap {r.txid : r \in Rows(db.transactions)}

\* C4: for every ingested transaction that credits the authority v, more than
\* DEPOSIT_THRESHOLD, in one output and carries a directive in a separate
\* address-less OP_RETURN output, the Ledger holds a deposit row for its txid
\* with amount v, and a deposit event for it was enqueued.
C4_DepositCreated ==
    \A t \in Ingested :
        LET tx == Transaction(t)
        IN  \A i \in 1..Len(tx.vout) :
              (CreditsAuthority(tx, i) /\ CarriesDirective(tx))
                => /\ \E r \in Rows(db.deposit) :
                          r.depc_txid = t /\ r.amount = tx.vout[i].value64
                   /\ \E k \in 1..Len(hist.sentD) : hist.sentD[k].of_txid = t

\* C5: when the Deposit Worker has handled an event and the token transfer
\* returned the signature s, the deposit row of the event's transaction has
\* erc20_txid = s and its erc20_timestamp set, and no other deposit row changed.
C5_DepositConfirmed ==
    [][ Len(hist'.minted) = Len(hist.minted) + 1 =>
          LET m == hist'.minted[Len(hist'.minted)]
          IN  /\ m.res # "ERR" =>
                   \E r \in Rows(db'.deposit) :
                       /\ r.depc_txid = m.event.of_txid
                       /\ r.erc20_txid = m.res
                       /\ r.erc20_timestamp # NoHeight
              /\ Len(db'.deposit) = Len(db.deposit)
              /\ \A i \in 1..Len(db.deposit) :
                    db.deposit[i].depc_txid # m.event.of_txid
                      => db'.deposit[i] = db.deposit[i]
      ]_vars

\* the withdrawals row of a withdraw event: keyed by the burn, with its amount
HasWithdrawRow(e) ==
    \E r \in Rows(db.withdraw) : r.erc20_txid = e.of_sig /\ r.amount = e.amount

\* C6: the withdrawals row of a withdraw event is in the Ledger from before
\* the event is enqueued, and once the Withdraw Worker's transfer for the
\* event returned a txid the row holds that txid and the event's recipient.
C6_WithdrawHappyPath ==
    /\ pending.kind = "withdraw" => HasWithdrawRow(pending)
    /\ \A k \in 1..Len(hist.sentW) : HasWithdrawRow(hist.sentW[k])
    /\ \A k \in 1..Len(hist.paid) :
          LET p == hist.paid[k]
          IN  p.res # "ERR" =>
                \E r \in Rows(db.withdraw) :
                    /\ r.erc20_txid = p.event.of_sig
                    /\ r.depc_txid = p.res
                    /\ r.to_address_depc = p.event.recipient_address

\* the value the outputs vout credit the authority in all
RECURSIVE Credited(_)
Credited(vout) ==
    IF Len(vout) = 0 THEN 0
    ELSE (IF Head(vout).address = OWNER THEN Head(vout).value64 ELSE 0)
         + Credited(Tail(vout))

\* C7: for every ingested transaction that carries a deposit directive and
\* credits the authority no more than DEPOSIT_THRESHOLD, the Ledger holds no
\* deposit row for it and no deposit event for it was enqueued.
C7_DepositThreshold ==
    \A t \in Ingested :
        LET tx == Transaction(t)
        IN  (CarriesDirective(tx) /\ Credited(tx.vout) <= DEPOSIT_THRESHOLD)
              => /\ \A r \in Rows(db.deposit) : r.depc_txid # t
                 /\ \A k \in 1..Len(hist.sentD) : hist.sentD[k].of_txid # t

\* what verify returns for the burn of signature sig
Burn(sig) == verify(BChain(sig), AUTH_B)

\* C8: when verify returned an amount of at most WITHDRAW_THRESHOLD for the
\* withdraw directive of an output, run_depc_syncing goes on with the next
\* output and has no event to send; every withdraw event made, and every
\* withdrawals row, is for a burn verified with more than the threshold.
C8_WithdrawThreshold ==
    /\ (hist.last.verified.ok /\ hist.last.verified.amount <= WITHDRAW_THRESHOLD)
          => (hist.last.to = "next" /\ pending.kind # "withdraw")
    /\ \A e \in {pending} \cup Rows(hist.sentW) \cup Rows(withdrawQ) :
          e.kind = "withdraw" =>
              /\ Burn(e.of_sig).ok
              /\ Burn(e.of_sig).amount > WITHDRAW_THRESHOLD
              /\ e.amount = Burn(e.of_sig).amount
    /\ \A r \in Rows(db.withdraw) :
          Burn(r.erc20_txid).ok /\ Burn(r.erc20_txid).amount > WITHDRAW_THRESHOLD

\* the directive of the authority's output of value 0 named a burn of exactly
\* the threshold: nothing is sent and the next output is up
C8_Witness ==
    /\ hist.last.verified = VOk(WITHDRAW_THRESHOLD)
    /\ hist.last.sd.signature = "SIG_SMALL"
    /\ hist.last.to = "next"
    /\ ipc = "vout"
    /\ oi = 2
    /\ hist.sentW = <<>>

\* the sum of the amounts of the token-program transfers to destination
RECURSIVE SumToDestination(_, _)
SumToDestination(ins, destination) ==
    IF Len(ins) = 0 THEN 0
    ELSE (IF /\ Head(ins).program = "spl_token"
             /\ Head(ins).type = "transfer"
             /\ Head(ins).destination = destination
          THEN Head(ins).amount ELSE 0)
         + SumToDestination(Tail(ins), destination)

\* C9: for a transaction the node serves, verify returns the sum of the
\* amounts of its token-program transfer instructions whose destination is the
\* authority, which is 0 when there is none.
C9_VerifyBurnScope ==
    (vres # NotCalled /\ vtx.rpc_ok)
        => vres = VOk(SumToDestination(vtx.instructions, AUTH_B))

\* C10: once a deposit row is confirmed no call changes its erc20_txid and
\* erc20_timestamp, and a confirm_deposit for a row already confirmed returns
\* an error.
C10_ConfirmedOnce ==
    [][ /\ \A i \in 1..Len(db.deposit) :
              db.deposit[i].erc20_txid # NULL =>
                  /\ i <= Len(db'.deposit)
                  /\ db'.deposit[i].erc20_txid = db.deposit[i].erc20_txid
                  /\ db'.deposit[i].erc20_timestamp = db.deposit[i].erc20_timestamp
        /\ (/\ lcall'.op = "confirm_deposit"
            /\ \E r \in Rows(db.deposit) :
                  r.depc_txid = lcall'.key /\ r.erc20_txid # NULL)
              => ~lcall'.ok
      ]_vars

\* C11: once a coin row is spent no call changes it: it keeps is_spent,
\* spent_txid and spent_height, whatever mark_coin_to_spent or add_coin is
\* called afterwards.
C11_CoinSpentOnce ==
    [][ \A i \in 1..Len(db.coins) :
            db.coins[i].is_spent =>
                /\ i <= Len(db'.coins)
                /\ db'.coins[i] = db.coins[i]
      ]_vars

\* the height of the block whose transaction created the coin c of Ledger d
CoinHeight(d, c) ==
    LET t == CHOOSE t \in Rows(d.transactions) : t.txid = c.txid
        b == CHOOSE b \in Rows(d.blocks) : b.hash = t.block_hash
    IN  b.height

\* C12: in the Ledger, as written and as committed, every coin row that is
\* spent has a spent_txid and a spent_height, and the spent_height is not below
\* the height of the block whose transaction created the coin; every coin row
\* that is not spent has neither.
C12_CoinInvariant ==
    \A d \in {db, committed} :
        \A c \in Rows(d.coins) :
            /\ \E t \in Rows(d.transactions) :
                  /\ t.txid = c.txid
                  /\ \E b \in Rows(d.blocks) : b.hash = t.block_hash
            /\ c.is_spent => /\ c.spent_txid # NULL
                             /\ c.spent_height # NoHeight
                             /\ c.spent_height >= CoinHeight(d, c)
            /\ ~c.is_spent => /\ c.spent_txid = NULL
                              /\ c.spent_height = NoHeight

\* the coin of t1 made at height 1 is spent by t5 at height 2, beside coins
\* that are not spent, and the batch is committed
C12_Witness ==
    /\ ~inTxn
    /\ \E c \in Rows(committed.coins) :
          /\ c.txid = "t1" /\ c.is_spent /\ c.spent_txid = "t5"
          /\ c.spent_height = 2 /\ CoinHeight(committed, c) = 1
    /\ \E c \in Rows(committed.coins) : ~c.is_spent

\* the transaction run_depc_syncing is about to add has a row already
TransactionExists ==
    /\ ipc = "tx"
    /\ txi <= Len(CurBlock.tx)
    /\ \E r \in Rows(db.transactions) : r.txid = CurTxid

\* C13: when the transaction run_depc_syncing adds has a row already, the
\* step that adds it leaves the Ledger's rows as they are and goes on with
\* the outputs of that transaction.
C13_ExistsIsSuccess ==
    [][ (TransactionExists /\ IBeginTx)
            => /\ ipc' = "vout"
               /\ db'.transactions = db.transactions
               /\ db'.blocks = db.blocks
      ]_vars

\* C14: with the latch set, run_depc_syncing waiting to send an event into a
\* full queue does not end by a panic: it gets to return.
C14_GracefulShutdown ==
    [][ /\ (exit /\ ipc = "send_deposit" /\ Len(depositQ) = ChannelCapacity)
              => ipc' # "panicked"
        /\ (exit /\ ipc = "send_withdraw" /\ Len(withdrawQ) = ChannelCapacity)
              => ipc' # "panicked"
      ]_vars

\* C15: once shutdown_signal has received a signal, interrupt or terminate,
\* the exit latch is true.
C15_SignalsSetLatch == signal # "none" => exit

\* C16: when the token transfer for a deposit event fails, the Ledger is left
\* as it is, with the event's deposit row saved and not confirmed, and
\* deposit_processing goes back to its loop; and no token transfer is issued
\* for a transaction for which an earlier one failed.
C16_DepositFailure ==
    [][ Len(hist'.minted) = Len(hist.minted) + 1 =>
          LET m == hist'.minted[Len(hist'.minted)]
          IN  /\ m.res = "ERR" =>
                    /\ db' = db
                    /\ dpc' = "loop"
                    /\ \E r \in Rows(db'.deposit) :
                          r.depc_txid = m.event.of_txid /\ r.erc20_txid = NULL
              /\ \A k \in 1..Len(hist.minted) :
                    hist.minted[k].res = "ERR"
                        => hist.minted[k].event.of_txid # m.event.of_txid
      ]_vars

\* C17: when the transfer for a withdraw event fails, withdraw_processing has
\* taken the event off the queue and is still running, in its loop or
\* waiting for the next event.
C17_WithdrawFailure ==
    [][ (/\ Len(hist'.paid) = Len(hist.paid) + 1
         /\ hist'.paid[Len(hist'.paid)].res = "ERR")
            => /\ \A i \in 1..Len(withdrawQ') :
                     withdrawQ'[i] # hist'.paid[Len(hist'.paid)].event
               /\ wpc' \in {"loop", "recv"}
      ]_vars

\* C18: a step in which an RPC of the Chain-A client fails leaves
\* run_depc_syncing running, in its loop, with its cursor where it was.
C18_RpcFailureRetried ==
    [][ IRpcFail => /\ ipc' \in {"loop", "tx"}
                    /\ sync_height' = sync_height
      ]_vars

\* C19: when verify returned an error or 0 for the withdraw directive of an
\* output, run_depc_syncing goes on with the next output, has no event to
\* send, and the Ledger holds no withdrawals row for that burn.
C19_VerifyFailureSkipped ==
    (/\ hist.last.verified # NotCalled
     /\ (~hist.last.verified.ok \/ hist.last.verified.amount = 0))
        => /\ hist.last.to = "next"
           /\ ipc # "panicked"
           /\ pending.kind # "withdraw"
           /\ \A r \in Rows(db.withdraw) : r.erc20_txid # hist.last.sd.signature

\* an OP_RETURN script that breaks the wire format: too short to carry the
\* header, a declared length that is not the script's, or a push size that
\* is not the payload's
Malformed(hex_str) ==
    LET d == HexDecode(hex_str).bytes
        n == Len(d)
    IN  /\ HexDecode(hex_str).ok
        /\ n > 0
        /\ d[1] = OP_RETURN
        /\ \/ n < 7
           \/ from_le_bytes(SubSeq(d, 3, 6)) - 1 # n - 6
           \/ CASE d[7] < OP_PUSHDATA1 -> n - 7 # d[7]
                 [] d[7] = OP_PUSHDATA1 -> n < 8 \/ n - 8 # d[8]
                 [] d[7] = OP_PUSHDATA2 ->
                        n < 9 \/ n - 9 # from_le_bytes(SubSeq(d, 8, 9))
                 [] d[7] = OP_PUSHDATA4 ->
                        n < 11 \/ n - 11 # from_le_bytes(SubSeq(d, 8, 11))
                 [] OTHER -> FALSE

\* C20: an output whose script is a malformed OP_RETURN directive is skipped,
\* run_depc_syncing going on with the next output; and every transaction
\* ingested to its last output has the coin rows of all its outputs that
\* have an address.
C20_MalformedSkipped ==
    /\ (/\ hist.last.txid # ""
         /\ Malformed(Transaction(hist.last.txid).vout[hist.last.n + 1].script_hex))
            => hist.last.to = "next"
    /\ \A t \in Ingested :
          \A i \in 1..Len(Transaction(t).vout) :
              Transaction(t).vout[i].address # NULL
                  => \E c \in Rows(db.coins) :
                         c.txid = t /\ c.n = Transaction(t).vout[i].n

\* a script of the wire format: 0x6a, one byte, the LE u32 declared length,
\* a push prefix of kind k for the payload, and the UTF-8 payload, with
\* declared length - 1 = total bytes - 6 and push size = payload length
WireScript(k, payload) ==
    HexEncode(ScriptBytes(OP_RETURN, 4, Len(PushPrefix(k, 0)) + Len(payload) + 1,
                          k, Len(payload), payload))

\* C21: for every script of the wire format the decoder returns exactly the
\* payload.
C21_RoundTrip ==
    \A k \in PushKinds, p \in Payloads \cup {HelloPayload} :
        (decoded # NotDecoded /\ from_utf8(p) /\ hex_str_in = WireScript(k, p))
            => (decoded.tag = "Ok" /\ decoded.text = p)

\* the bytes of the script handed to the decoder
BytesIn == HexDecode(hex_str_in).bytes

\* C22: for every script, of any length, whose first byte is not 0x6a, the
\* decoder returns the error NotOPReturn and nothing else.
C22_NotOPReturn ==
    (/\ decoded # NotDecoded
     /\ HexDecode(hex_str_in).ok
     /\ (Len(BytesIn) = 0 \/ BytesIn[1] # OP_RETURN))
        => (decoded.tag = "Err" /\ decoded.err = "NotOPReturn")

\* the decoder of depc/script.rs has answered NotOPReturn for a script of
\* one to five bytes
C22_Witness ==
    /\ decoded.by = "depc/script.rs"
    /\ HexDecode(hex_str_in).ok
    /\ Len(BytesIn) \in 1..5
    /\ BytesIn[1] # OP_RETURN
    /\ decoded.err = "NotOPReturn"

\* C23: for every script starting with 0x6a whose declared length or push
\* size does not match its payload, or that is too short for the header, the
\* decoder returns the error InvalidScript, not a directive and not an abort.
C23_InvalidScript ==
    (decoded # NotDecoded /\ Malformed(hex_str_in))
        => (decoded.tag = "Err" /\ decoded.err = "InvalidScript")

\* the output run_depc_syncing processed last
LastOut == Transaction(hist.last.txid).vout[hist.last.n + 1]

\* C24: a deposit row and event are made only for a directive with a
\* recipient and no signature on a credited value above DEPOSIT_THRESHOLD, a
\* withdraw event only for a directive with recipient and signature on a
\* credited value of exactly 0; a directive with a signature is no deposit.
C24_Classification ==
    /\ hist.last.to = "send_deposit"
          => /\ hist.last.sd.recipient # ""
             /\ hist.last.sd.signature = ""
             /\ LastOut.value64 > DEPOSIT_THRESHOLD
    /\ hist.last.to = "send_withdraw"
          => /\ hist.last.sd.recipient # ""
             /\ hist.last.sd.signature # ""
             /\ LastOut.value64 = 0

\* the events sent for transaction t, deposits and withdrawals
EventsOf(t) ==
    Cardinality({i \in 1..Len(hist.sentD) : hist.sentD[i].of_txid = t})
    + Cardinality({i \in 1..Len(hist.sentW) : hist.sentW[i].of_txid = t})

\* C25: a transaction yields at most one event and at most one deposit row,
\* also when several of its outputs pay the authority.
C25_OneEventPerTransaction ==
    \A t \in TxIds :
        /\ EventsOf(t) <= 1
        /\ Cardinality({i \in 1..Len(db.deposit) : db.deposit[i].depc_txid = t}) <= 1

\* a step in which run_depc_syncing does nothing: no block fetched, no row
\* inserted, no coin marked, the cursor where it was
IngesterStill ==
    /\ sync_height' = sync_height
    /\ hist'.fetched = hist.fetched
    /\ db'.blocks = db.blocks
    /\ db'.transactions = db.transactions
    /\ db'.coins = db.coins
    /\ Len(db'.deposit) = Len(db.deposit)

\* run_depc_syncing is at a send on a channel that is full
BlockedOnSend ==
    \/ ipc = "send_deposit" /\ Len(depositQ) = ChannelCapacity
    \/ ipc = "send_withdraw" /\ Len(withdrawQ) = ChannelCapacity

\* C26 as stated: whenever a queue is full, run_depc_syncing performs no RPC,
\* no Ledger write and no cursor advance.
C26_StillWhileFull ==
    [][ (Len(depositQ) = ChannelCapacity \/ Len(withdrawQ) = ChannelCapacity)
            => IngesterStill ]_vars

\* C26: each queue holds at most one event, and from reaching a send on a
\* full queue run_depc_syncing performs no RPC, no Ledger write and no cursor
\* advance, and stays at the send, until the worker has dequeued.
C26_Backpressure ==
    [][ /\ Len(depositQ') <= 1
        /\ Len(withdrawQ') <= 1
        /\ BlockedOnSend => (IngesterStill /\ ipc' \in {ipc, "panicked"}) ]_vars

\* run_depc_syncing waits at a deposit send while the worker, still running,
\* has not taken the event before
C26_Witness ==
    /\ ipc = "send_deposit"
    /\ Len(depositQ) = ChannelCapacity
    /\ dpc \notin {"done", "failed", "panicked"}

\* transaction t1 is on Chain-A before t2: at a lower height, or earlier in
\* the same block
ChainBefore(t1, t2) ==
    \E i, j \in 1..Len(chain) :
        \E a \in 1..Len(chain[i].tx), b \in 1..Len(chain[j].tx) :
            /\ chain[i].tx[a] = t1
            /\ chain[j].tx[b] = t2
            /\ (i < j \/ (i = j /\ a < b))

\* the events of seq are in Chain-A order
InChainOrder(seq) ==
    \A i, j \in 1..Len(seq) :
        ChainBefore(seq[i].of_txid, seq[j].of_txid) => i < j

\* C27: events are enqueued and dequeued in Chain-A order: an event of a lower
\* block, or of an earlier transaction of the same block, is sent and is
\* received by its worker before a later one.
C27_ChainOrder ==
    /\ InChainOrder(hist.sentD)
    /\ InChainOrder(hist.sentW)
    /\ InChainOrder([i \in 1..Len(hist.minted) |-> hist.minted[i].event])
    /\ InChainOrder([i \in 1..Len(hist.paid) |-> hist.paid[i].event])

\* deposit_processing has received the deposits of two transactions of one
\* block
C27_Witness ==
    /\ Len(hist.minted) >= 2
    /\ \E i \in 1..Len(chain) :
          /\ Len(chain[i].tx) >= 2
          /\ hist.minted[1].event.of_txid = chain[i].tx[1]
          /\ hist.minted[2].event.of_txid = chain[i].tx[2]

\* C28: a confirmation written by a worker is never executed inside the batch
\* run_depc_syncing has opened: when deposit_processing calls confirm_deposit
\* no "begin transaction" is open on the connection.
C28_ConfirmOutsideBatch ==
    [][ (/\ Len(hist'.minted) > Len(hist.minted)
         /\ hist'.minted[Len(hist'.minted)].res # "ERR")
            => ~inTxn ]_vars

\* after a restart the bridge has nothing left to do: run_depc_syncing has
\* caught up with the chain and waits for blocks, deposit_processing waits on
\* an empty queue
QuietAfterRestart ==
    /\ hist.runs = MaxRuns
    /\ ipc = "loop"
    /\ sync_height > Tip
    /\ ~exit
    /\ depositQ = <<>>
    /\ dpc = "recv"

\* C29: a deposit row that was saved before the process stopped is re-driven
\* after the restart: once the restarted bridge has nothing left to do, the
\* event of every saved row has reached deposit_processing.
C29_Redrive ==
    QuietAfterRestart =>
        \A r \in Rows(db.deposit) :
            \E k \in 1..Len(hist.minted) : hist.minted[k].event.of_txid = r.depc_txid

\* the cursor a run must start at on the persisted Ledger d: 0 without a
\* block row, else one more than the highest height of a block row
CursorOver(d) ==
    IF d.blocks = <<>> THEN 0
    ELSE CHOOSE c \in 1..(MaxHeight + 2) :
            /\ \E i \in 1..Len(d.blocks) : d.blocks[i].height = c - 1
            /\ \A i \in 1..Len(d.blocks) : d.blocks[i].height < c

\* C30: a run starts with its cursor at the highest persisted block height
\* plus 1, or at 0 on a Ledger without a block; the first block it fetches is
\* the one at that height, and it fetches no height at or below the highest
\* persisted one.
C30_StartCursor ==
    [][ /\ hist'.runs > hist.runs => sync_height' = CursorOver(committed')
        /\ Len(hist'.fetched) > Len(hist.fetched) =>
              LET h == hist'.fetched[Len(hist'.fetched)]
              IN  /\ h >= CursorOver(committed)
                  /\ hist.fetched = <<>> => h = CursorOver(committed)
      ]_vars

\* the second run found blocks 0 and 1 persisted and has fetched block 2 first
C30_Witness ==
    /\ hist.runs > 0
    /\ inTxn
    /\ Len(committed.blocks) = 2
    /\ hist.fetched # <<>>
    /\ hist.fetched[1] = 2

\* the columns of a deposit row, of a withdraw row, that are no confirmation
DepositSaved(r) == [depc_txid |-> r.depc_txid, depc_timestamp |-> r.depc_timestamp,
                    to_address_erc20 |-> r.to_address_erc20, amount |-> r.amount]
WithdrawSaved(r) == [erc20_txid |-> r.erc20_txid, erc20_timestamp |-> r.erc20_timestamp,
                     from_address_erc20 |-> r.from_address_erc20, amount |-> r.amount]
DepositConfirmation(r) == <<r.erc20_txid, r.erc20_timestamp>>
WithdrawConfirmation(r) == <<r.depc_txid, r.depc_timestamp, r.to_address_depc>>

\* a step of a worker leaves the rows of Chain-A, the saved columns and the
\* queues' intake alone
WorkerFrame ==
    /\ db'.blocks = db.blocks
    /\ db'.transactions = db.transactions
    /\ db'.coins = db.coins
    /\ Len(db'.deposit) = Len(db.deposit)
    /\ Len(db'.withdraw) = Len(db.withdraw)
    /\ \A i \in 1..Len(db.deposit) :
          DepositSaved(db'.deposit[i]) = DepositSaved(db.deposit[i])
    /\ \A i \in 1..Len(db.withdraw) :
          WithdrawSaved(db'.withdraw[i]) = WithdrawSaved(db.withdraw[i])
    /\ hist'.sentD = hist.sentD
    /\ hist'.sentW = hist.sentW
    /\ Len(depositQ') <= Len(depositQ)
    /\ Len(withdrawQ') <= Len(withdrawQ)

\* C31: run_depc_syncing never writes a confirmation column; deposit_processing
\* changes nothing but confirmation columns of deposit rows, withdraw_processing
\* nothing but confirmation columns of withdraw rows; no worker touches block,
\* transaction or coin rows or sends an event.
C31_SingleWriter ==
    [][ /\ <<ipc, sync_height, txi, oi, pending>>' # <<ipc, sync_height, txi, oi, pending>>
            => /\ \A i \in 1..Len(db.deposit) :
                     /\ i <= Len(db'.deposit)
                     /\ DepositConfirmation(db'.deposit[i])
                            = DepositConfirmation(db.deposit[i])
               /\ \A i \in (Len(db.deposit) + 1)..Len(db'.deposit) :
                     db'.deposit[i].erc20_txid = NULL
               /\ \A i \in 1..Len(db.withdraw) :
                     /\ i <= Len(db'.withdraw)
                     /\ WithdrawConfirmation(db'.withdraw[i])
                            = WithdrawConfirmation(db.withdraw[i])
               /\ \A i \in (Len(db.withdraw) + 1)..Len(db'.withdraw) :
                     db'.withdraw[i].depc_txid = NULL
        /\ (dpc' # dpc \/ hist'.minted # hist.minted)
            => /\ WorkerFrame
               /\ \A i \in 1..Len(db.withdraw) :
                     WithdrawConfirmation(db'.withdraw[i])
                        = WithdrawConfirmation(db.withdraw[i])
        /\ (wpc' # wpc \/ hist'.paid # hist.paid)
            => /\ WorkerFrame
               /\ \A i \in 1..Len(db.deposit) :
                     DepositConfirmation(db'.deposit[i])
                        = DepositConfirmation(db.deposit[i])
      ]_vars

\* deposit_processing has handled the event of a saved row with a token
\* transfer that succeeded
C31_Witness ==
    /\ Len(db.deposit) > 0
    /\ \E k \in 1..Len(hist.minted) :
          /\ hist.minted[k].res # "ERR"
          /\ hist.minted[k].event.of_txid = db.deposit[1].depc_txid

\* every output of transaction t that has an address has its coin row in d
OutputsApplied(d, t) ==
    \A i \in 1..Len(Transaction(t).vout) :
        Transaction(t).vout[i].address # NULL
            => \E c \in Rows(d.coins) : c.txid = t /\ c.n = Transaction(t).vout[i].n

C33_CommitOnExit ==
    [][ /\ (ipc # "done" /\ ipc' = "done")
            => (exit /\ inTxn /\ ~inTxn' /\ db' = db /\ committed' = db)
        /\ ~inTxn' => (ipc' = "done" /\ committed' = db')
        /\ (~inTxn /\ inTxn') => hist'.runs > hist.runs
      ]_vars

\* after a clean shutdown the rows of an ingested block, its deposit row
\* included, are durable
C33_Witness ==
    /\ ipc = "done"
    /\ ~inTxn
    /\ Len(committed.blocks) >= 2
    /\ Len(committed.coins) > 0
    /\ Len(committed.deposit) > 0

\* C34: at cursor 0 run_depc_syncing persists the block row only: it fetches
\* no transaction of block 0, writes no transaction or coin row, makes no
\* event, and moves the cursor to 1.
C34_GenesisBlockOnly ==
    [][ /\ (sync_height = 0 /\ Len(hist'.fetched) > Len(hist.fetched))
            => /\ sync_height' = 1
               /\ ipc' = "loop"
               /\ db'.blocks = Append(db.blocks, [hash |-> chain[1].hash, height |-> 0,
                                                  miner |-> chain[1].miner,
                                                  time |-> chain[1].time])
               /\ db'.transactions = db.transactions
               /\ db'.coins = db.coins
               /\ db'.deposit = db.deposit
               /\ db'.withdraw = db.withdraw
               /\ pending' = NoEvent
               /\ hist'.sentD = hist.sentD
               /\ hist'.sentW = hist.sentW
        /\ \A i \in 1..Len(db'.transactions) :
               db'.transactions[i].block_hash # chain[1].hash
      ]_vars

\* block 0 is persisted, the cursor is 1 and the Ledger holds the block row
\* alone
C34_Witness ==
    /\ hist.fetched = <<0>>
    /\ sync_height = 1
    /\ Len(db.blocks) = 1
    /\ db.transactions = <<>>
    /\ db.coins = <<>>

\* C35: every deposit event in the deposit queue has its deposit row in the
\* Ledger, with the event's recipient and amount, and every withdraw event in
\* the withdraw queue has the withdraw row of its Chain-B signature.
C35_SavePrecedesEnqueue ==
    /\ \A i \in 1..Len(depositQ) :
          \E r \in Rows(db.deposit) :
              /\ r.depc_txid = depositQ[i].of_txid
              /\ r.to_address_erc20 = depositQ[i].recipient_address
              /\ r.amount = depositQ[i].amount
    /\ \A i \in 1..Len(withdrawQ) :
          \E r \in Rows(db.withdraw) : r.erc20_txid = withdrawQ[i].of_sig

\* C36: no double payout of a burn. For every Chain-B signature at most one
\* withdraw event has been enqueued and at most one transfer has been issued,
\* however many ingested transactions name that signature.
WithdrawEventsFor(sig) ==
    Cardinality({i \in 1..Len(hist.sentW) : hist.sentW[i].of_sig = sig})

TransfersFor(sig) ==
    Cardinality({i \in 1..Len(hist.paid) : hist.paid[i].event.of_sig = sig})

C36_NoDoublePayout ==
    \A k \in 1..Len(hist.sentW) :
        /\ WithdrawEventsFor(hist.sentW[k].of_sig) <= 1
        /\ TransfersFor(hist.sentW[k].of_sig) <= 1

\* C37: no double mint of a deposit. For every Chain-A txid at most one
\* deposit event has been enqueued and at most one token transfer has been
\* issued, over all runs of the process.
DepositEventsFor(t) ==
    Cardinality({i \in 1..Len(hist.sentD) : hist.sentD[i].of_txid = t})

MintsFor(t) ==
    Cardinality({i \in 1..Len(hist.minted) : hist.minted[i].event.of_txid = t})

C37_NoDoubleMint ==
    \A t \in TxIds : DepositEventsFor(t) <= 1 /\ MintsFor(t) <= 1

\* the recipient and signature the script of some output of transaction t
\* decodes to
Directives(t) ==
    UNION {{sd \in extract_string_from_script_hex(Transaction(t).vout[i].script_hex) :
                sd.tag = "Ok"} : i \in 1..Len(Transaction(t).vout)}

\* C38: value conservation across the queues. Every token transfer of the
\* deposit worker is for the recipient and the amount of the deposit row of
\* the event's transaction; every transfer of the withdraw worker pays, from
\* the authority's address, the amount verify returned for the burn to the
\* recipient the directive names.
C38_ValueConservation ==
    /\ \A k \in 1..Len(hist.minted) :
          LET e == hist.minted[k].event
          IN  \E r \in Rows(db.deposit) :
                 /\ r.depc_txid = e.of_txid
                 /\ r.to_address_erc20 = e.recipient_address
                 /\ r.amount = e.amount
    /\ \A k \in 1..Len(hist.paid) :
          LET e == hist.paid[k].event
          IN  /\ e.sender_address = OWNER
              /\ Burn(e.of_sig).ok
              /\ e.amount = Burn(e.of_sig).amount
              /\ \E sd \in Directives(e.of_txid) :
                     sd.recipient = e.recipient_address /\ sd.signature = e.of_sig

\* a deposit has been handed to send_token and a withdraw to transfer
C38_Witness ==
    /\ hist.minted # <<>>
    /\ hist.minted[1].event.amount > DEPOSIT_THRESHOLD
    /\ hist.paid # <<>>
    /\ hist.paid[1].event.amount > WITHDRAW_THRESHOLD
    /\ hist.paid[1].event.recipient_address = "RCP"

\* a worker that has left its function: by its break, by return Err or by a
\* panic
Terminated(pc) == pc \in {"done", "failed", "panicked"}

\* C39: run_depc_syncing never sends on a queue whose worker has terminated:
\* when it has an event to send and the exit latch is unset, the worker that
\* consumes the event is still running.
C39_ConsumerRunning ==
    ~exit =>
        /\ (ipc = "send_deposit" => ~Terminated(dpc))
        /\ (ipc = "send_withdraw" => ~Terminated(wpc))

\* the coin (t, n) was created on Chain-A before the transaction at place a
\* of the block of height h
CreatedBefore(t, n, h, a) ==
    \E i \in 1..Len(chain) : \E b \in 1..Len(chain[i].tx) :
        /\ chain[i].tx[b] = t
        /\ i >= 2
        /\ (i < h + 1 \/ (i = h + 1 /\ b < a))
        /\ \E o \in 1..Len(Transaction(t).vout) : Transaction(t).vout[o].n = n

\* the (txid, n) that have a coin row in Ledger d
OutpointsOf(d) == {<<c.txid, c.n>> : c \in Rows(d.coins)}

\* C40: spent marking is complete for known coins. Once run_depc_syncing is
\* past the block of height h, every coin row that a non-coinbase input of a
\* transaction of a block up to h refers to is spent, by that transaction and
\* at that transaction's height; and marking the inputs of a transaction
\* adds no coin row, whether the coins referred to have rows or not.
C40_SpentMarking ==
    /\ [](\A h \in 1..(sync_height - 1) :
            h + 1 <= Len(chain) =>
              \A a \in 1..Len(chain[h + 1].tx) :
                LET t == chain[h + 1].tx[a]
                    vin == Transaction(t).vin
                IN  \A k \in 1..Len(vin) :
                      ~vin[k].coinbase =>
                        \A c \in Rows(db.coins) :
                          (/\ c.txid = vin[k].txid
                           /\ c.n = vin[k].vout
                           /\ CreatedBefore(c.txid, c.n, h, a))
                            => /\ c.is_spent
                               /\ c.spent_txid = t
                               /\ c.spent_height = h)
    /\ [][(ipc = "tx" /\ ipc' = "vout")
            => OutpointsOf(db') = OutpointsOf(db) /\ Len(db'.coins) = Len(db.coins)]_vars

\* the block of t1 and t5 is done: the coin of t1 that t5 spends is marked,
\* and the output of the authority of t5 is unspent
C40_Witness ==
    /\ sync_height = 2
    /\ chain[2].tx = <<"t1", "t5">>
    /\ ipc = "loop"
    /\ \E c \in Rows(db.coins) :
          c.txid = "t1" /\ c.n = 0 /\ c.is_spent /\ c.spent_txid = "t5" /\ c.spent_height = 1
    /\ \E c \in Rows(db.coins) : c.txid = "t5" /\ ~c.is_spent

\* the block of t5 alone is done: no coin of t1 has a row
SpendOfUnknownCoin ==
    /\ sync_height = 2
    /\ chain[2].tx = <<"t5">>
    /\ \A c \in Rows(db.coins) : c.txid # "t1"

=============================================================================
